---- MODULE Spec2Model ----
(***************************************************************************)
(* Session store, query normalisation and the /chat/completions dispatch   *)
(* chain of the VIC agent (agent/src/agent.py, agent/src/tools.py).        *)
(*                                                                         *)
(* Text is modelled as TLA+ strings handled character by character, so     *)
(* that substring tests, word boundaries and length tests behave as the    *)
(* Python code's do.                                                       *)
(***************************************************************************)
EXTENDS Integers, Sequences, FiniteSets, TLC

(***************************************************************************)
(* Bounds of the model.                                                    *)
(***************************************************************************)
\* Capacity of the session store.  The source sets 100 (agent.py:54); the
\* model runs the same code with a small capacity so that eviction happens.
MAX_SESSIONS == 2
\* Direct helper calls explored by the store specification.
MaxStoreOps == 4
\* Direct calls of the name accessors in one behaviour of SpecName.
MaxNameCalls == 6
\* Requests started in one behaviour of the request specifications.
MaxRequests == 2

(***************************************************************************)
(* Program constants.                                                      *)
(***************************************************************************)
NAME_COOLDOWN_TURNS == 3
MAX_HISTORY_TURNS == 4
HISTORY_TEXT_LIMIT == 200

\* Python's None, for optional strings and for a request without session id.
None == "<None>"

(***************************************************************************)
(* Character-level string helpers (Python str methods).                    *)
(***************************************************************************)
Char(s, i) == SubSeq(s, i, i)

UpperChars == "ABCDEFGHIJKLMNOPQRSTUVWXYZ"
LowerChars == "abcdefghijklmnopqrstuvwxyz"
\* string.punctuation (the backquote, which no modelled text contains, is
\* left out)
PunctSet == {"!", "#", "$", "%", "&", "'", "(", ")", "*", "+", ",", "-", ".",
             "/", ":", ";", "<", "=", ">", "?", "@", "[", "]", "^", "_",
             "{", "|", "}", "~", "\\", "\""}

CharsOf(s) == { Char(s, i) : i \in 1..Len(s) }

IsAlpha(c) == c \in CharsOf(UpperChars) \cup CharsOf(LowerChars)
IsWordChar(c) == IsAlpha(c) \/ c \in CharsOf("0123456789") \/ c = "_"

LowerChar(c) ==
    IF c \in CharsOf(UpperChars)
    THEN Char(LowerChars, CHOOSE i \in 1..26 : Char(UpperChars, i) = c)
    ELSE c

RECURSIVE LowerFrom(_, _)
LowerFrom(s, i) ==
    IF i > Len(s) THEN "" ELSE LowerChar(Char(s, i)) \o LowerFrom(s, i + 1)

\* str.lower()
Lower(s) == LowerFrom(s, 1)

\* sub in s
Contains(s, sub) ==
    \E i \in 1..(Len(s) - Len(sub) + 1) : SubSeq(s, i, i + Len(sub) - 1) = sub

\* s.startswith(p)
StartsWith(s, p) == Len(s) >= Len(p) /\ SubSeq(s, 1, Len(p)) = p

\* s.strip(), and w.strip(string.punctuation): drop is the set of characters
\* stripped from both ends
FirstKept(s, drop) ==
    IF \E i \in 1..Len(s) : Char(s, i) \notin drop
    THEN CHOOSE i \in 1..Len(s) :
            /\ Char(s, i) \notin drop
            /\ \A j \in 1..(i - 1) : Char(s, j) \in drop
    ELSE Len(s) + 1
LastKept(s, drop) ==
    IF \E i \in 1..Len(s) : Char(s, i) \notin drop
    THEN CHOOSE i \in 1..Len(s) :
            /\ Char(s, i) \notin drop
            /\ \A j \in (i + 1)..Len(s) : Char(s, j) \in drop
    ELSE Len(s)
StripBy(s, drop) == SubSeq(s, FirstKept(s, drop), LastKept(s, drop))
Strip(s) == StripBy(s, {" "})

\* s.split(): the whitespace-separated words of s, in order
\* the words of s[lo..hi], a stretch with a blank or an end of s on either
\* side: it is divided at the blank nearest its middle
RECURSIVE SplitRange(_, _, _)
SplitRange(s, lo, hi) ==
    IF lo > hi THEN <<>>
    ELSE LET m == (lo + hi) \div 2
         IN  IF \E j \in m..hi : Char(s, j) = " "
             THEN LET j == CHOOSE j \in m..hi :
                              Char(s, j) = " " /\ \A k \in m..(j - 1) : Char(s, k) # " "
                  IN  SplitRange(s, lo, j - 1) \o SplitRange(s, j + 1, hi)
             ELSE IF \E j \in lo..m : Char(s, j) = " "
             THEN LET j == CHOOSE j \in lo..m :
                              Char(s, j) = " " /\ \A k \in (j + 1)..m : Char(s, k) # " "
                  IN  SplitRange(s, lo, j - 1) \o SplitRange(s, j + 1, hi)
             ELSE <<SubSeq(s, lo, hi)>>
Split(s) == SplitRange(s, 1, Len(s))

\* position of the first occurrence of character c at or after i, 0 if none
IndexFrom(s, c, i) ==
    IF \E j \in i..Len(s) : Char(s, j) = c
    THEN CHOOSE j \in i..Len(s) :
            Char(s, j) = c /\ \A k \in i..(j - 1) : Char(s, k) # c
    ELSE 0

\* s.split(sep)[0] and s.split(sep)[1] for a one-character separator
SplitHead(s, c) ==
    IF IndexFrom(s, c, 1) = 0 THEN s ELSE SubSeq(s, 1, IndexFrom(s, c, 1) - 1)
SplitSecond(s, c) ==
    LET p == IndexFrom(s, c, 1)
        q == IndexFrom(s, c, p + 1)
    IN  IF q = 0 THEN SubSeq(s, p + 1, Len(s)) ELSE SubSeq(s, p + 1, q - 1)

(***************************************************************************)
(* Query normaliser (tools.py).                                            *)
(***************************************************************************)
\* The correction table, in the dict's insertion order.
PHONETIC_CORRECTIONS == <<
    <<"ignacio", "ignatius">>,
    <<"ignasio", "ignatius">>,
    <<"ignacius", "ignatius">>,
    <<"ignasius", "ignatius">>,
    <<"victor", "vic">>,
    <<"viktor", "vic">>,
    <<"thorny", "thorney">>,
    <<"thornay", "thorney">>,
    <<"thornie", "thorney">>,
    <<"fawny", "thorney">>,
    <<"fawney", "thorney">>,
    <<"fauny", "thorney">>,
    <<"fauney", "thorney">>,
    <<"forney", "thorney">>,
    <<"forny", "thorney">>,
    <<"thorn ey", "thorney">>,
    <<"forn ey", "thorney">>,
    <<"fourney", "thorney">>,
    <<"fourny", "thorney">>,
    <<"forn", "thorney">>,
    <<"phornee", "thorney">>,
    <<"images of", "show me images of london history">>,
    <<"pictures of", "show me images of london history">>,
    <<"photos of", "show me images of london history">>,
    <<"do you have images", "show me images of thorney island">>,
    <<"do you have any images", "show me images of thorney island">>,
    <<"any images", "images of london history">>,
    <<"tie burn", "tyburn">>,
    <<"tieburn", "tyburn">>,
    <<"tyeburn", "tyburn">>,
    <<"tiburn", "tyburn">>,
    <<"aquarim", "aquarium">>,
    <<"aquariam", "aquarium">>,
    <<"aquareum", "aquarium">>,
    <<"aquaruim", "aquarium">>,
    <<"royale", "royal">>,
    <<"cristal", "crystal">>,
    <<"crystle", "crystal">>,
    <<"chrystal", "crystal">>,
    <<"shakespear", "shakespeare">>,
    <<"shakespere", "shakespeare">>,
    <<"shakspeare", "shakespeare">>,
    <<"westmister", "westminster">>,
    <<"westminister", "westminster">>,
    <<"white hall", "whitehall">>,
    <<"parliment", "parliament">>,
    <<"parlement", "parliament">>,
    <<"tems", "thames">>,
    <<"tames", "thames">>,
    <<"temms", "thames">>,
    <<"devils acre", "devil's acre">>,
    <<"devil acre", "devil's acre">>,
    <<"devils aker", "devil's acre">>,
    <<"voxhall", "vauxhall">>,
    <<"vox hall", "vauxhall">>,
    <<"vaux hall", "vauxhall">>,
    <<"southwork", "southwark">>,
    <<"south work", "southwark">>,
    <<"grenwich", "greenwich">>,
    <<"green witch", "greenwich">>,
    <<"wolwich", "woolwich">>,
    <<"wool witch", "woolwich">>,
    <<"bermondsy", "bermondsey">>,
    <<"holbourn", "holborn">>,
    <<"holeborn", "holborn">>,
    <<"aldwich", "aldwych">>,
    <<"chisick", "chiswick">>,
    <<"chis wick", "chiswick">>,
    <<"dulwitch", "dulwich">>,
    <<"dull witch", "dulwich">>
>>

\* re: \bwrong\b matches at position i of s
MatchAt(s, wrong, i) ==
    /\ i + Len(wrong) - 1 <= Len(s)
    /\ SubSeq(s, i, i + Len(wrong) - 1) = wrong
    /\ i = 1 \/ ~IsWordChar(Char(s, i - 1))
    /\ i + Len(wrong) > Len(s) \/ ~IsWordChar(Char(s, i + Len(wrong)))

\* pattern.sub(correct, s): leftmost non-overlapping matches, left to right
RECURSIVE SubFrom(_, _, _, _)
SubFrom(s, wrong, correct, i) ==
    IF i > Len(s) THEN ""
    ELSE IF MatchAt(s, wrong, i)
         THEN correct \o SubFrom(s, wrong, correct, i + Len(wrong))
         ELSE Char(s, i) \o SubFrom(s, wrong, correct, i + 1)

RECURSIVE ApplyCorrections(_, _)
ApplyCorrections(s, k) ==
    IF k > Len(PHONETIC_CORRECTIONS) THEN s
    ELSE LET t == SubFrom(s, PHONETIC_CORRECTIONS[k][1],
                             PHONETIC_CORRECTIONS[k][2], 1)
         IN  IF t = s THEN ApplyCorrections(s, k + 1)
             ELSE ApplyCorrections(t, k + 1)

normalize_query(query) == ApplyCorrections(Strip(Lower(query)), 1)

\* re.sub(r'\{[^}]*\}', '', s): every brace that has a closing brace after it
\* is removed together with the text up to the first closing brace
RECURSIVE StripMarkersFrom(_, _)
StripMarkersFrom(s, i) ==
    IF i > Len(s) THEN ""
    ELSE IF Char(s, i) = "{" /\ IndexFrom(s, "}", i + 1) # 0
         THEN StripMarkersFrom(s, IndexFrom(s, "}", i + 1) + 1)
         ELSE Char(s, i) \o StripMarkersFrom(s, i + 1)

clean_query(normalized) == Strip(StripMarkersFrom(normalized, 1))

NOISE_TOKENS == {"the", "a", "an", "um", "uh", "hmm", "oh", "ah"}

\* the noise test counting letters instead of characters
is_noise_by_letters(clean) ==
    \/ Cardinality({ i \in 1..Len(clean) : IsAlpha(Char(clean, i)) }) < 3
    \/ Lower(clean) \in NOISE_TOKENS

is_noise(clean) ==
    \/ Len(clean) < 3
    \/ Lower(clean) \in NOISE_TOKENS
    \/ ~\E i \in 1..Len(clean) : IsAlpha(Char(clean, i))


(***************************************************************************)
(* State.                                                                  *)
(***************************************************************************)
VARIABLES
    session_contexts,    \* _session_contexts: the OrderedDict, oldest first,
                         \*   as a sequence of [key, ctx]
    background_results,  \* _background_results: session key -> result
    keyword_cache,       \* _keyword_cache: keyword -> TeaserData
    cache_loaded,        \* _cache_loaded
    zep_client,          \* whether get_zep_client() yields a client
    reqs,                \* the clm_endpoint coroutines, by slot
    tasks,               \* pending load_full_article_background tasks
    nreq,                \* requests started so far
    nops,                \* direct helper calls made so far
    last_call,           \* the last direct helper call: [op, key]
    in_sids,             \* session ids the callers use
    in_msgs,             \* user utterances the callers send
    in_names,            \* names the callers' system message may carry
    in_turns,            \* how many utterances the callers send
    articles,            \* the rows of the articles table that have keywords
    admin,               \* the add_keywords_to_article coroutine: the await it
                         \*   is at and the mutations made so far
    probe                \* the last direct call of a pure function and
                         \*   what it returned

vars == <<session_contexts, background_results, keyword_cache, cache_loaded,
          zep_client, reqs, tasks, nreq, nops, last_call, in_sids, in_msgs,
          in_names, in_turns, articles, admin, probe>>

(***************************************************************************)
(* SessionContext and the LRU session store (agent.py:52-107).             *)
(***************************************************************************)
\* user_context None
NoContext == [none |-> TRUE, found |-> FALSE, is_returning |-> FALSE,
              facts |-> <<>>, user_name |-> None]

\* SessionContext(): the dataclass defaults (last_interaction_time, a wall
\* clock reading that nothing reads back, is not part of the model)
SessionContext ==
    [turns_since_name_used |-> 0,
     name_used_in_greeting |-> FALSE,
     greeted_this_session |-> FALSE,
     last_topic |-> "",
     user_name |-> None,
     user_context |-> NoContext,
     context_fetched |-> FALSE,
     prefetched_topic |-> "",
     prefetched_content |-> "",
     prefetched_titles |-> <<>>,
     suggestions |-> <<>>,
     last_suggested_topic |-> "",
     conversation_history |-> <<>>,
     current_topic_context |-> ""]

Keys(S) == { S[i].key : i \in DOMAIN S }
KeySeq(S) == [i \in DOMAIN S |-> S[i].key]
Pos(S, k) == CHOOSE i \in DOMAIN S : S[i].key = k
CtxOf(S, k) == S[Pos(S, k)].ctx
RemoveAt(S, i) == SubSeq(S, 1, i - 1) \o SubSeq(S, i + 1, Len(S))

\* while len(_session_contexts) >= MAX_SESSIONS: popitem(last=False)
RECURSIVE EvictOldest(_)
EvictOldest(S) ==
    IF Len(S) >= MAX_SESSIONS /\ Len(S) > 0 THEN EvictOldest(Tail(S)) ELSE S

\* get_session_context with a hit that forgets move_to_end
get_session_context_no_touch(S, session_id) ==
    IF session_id \in Keys(S)
    THEN S
    ELSE Append(EvictOldest(S), [key |-> session_id, ctx |-> SessionContext])

\* get_session_context that evicts the newest entry (popitem(last=True))
get_session_context_pop_newest(S, session_id) ==
    IF session_id \in Keys(S)
    THEN Append(RemoveAt(S, Pos(S, session_id)), S[Pos(S, session_id)])
    ELSE Append(IF Len(S) >= MAX_SESSIONS THEN SubSeq(S, 1, MAX_SESSIONS - 1)
                ELSE S,
                [key |-> session_id, ctx |-> SessionContext])

\* get_session_context that hands out a fresh context on a hit
get_session_context_fresh(S, session_id) ==
    Append(IF session_id \in Keys(S) THEN RemoveAt(S, Pos(S, session_id))
           ELSE EvictOldest(S),
           [key |-> session_id, ctx |-> SessionContext])

\* get_session_context: the store after the call; the context the call
\* returns is then the last entry
get_session_context(S, session_id) ==
    IF session_id \in Keys(S)
    THEN Append(RemoveAt(S, Pos(S, session_id)), S[Pos(S, session_id)])
    ELSE Append(EvictOldest(S), [key |-> session_id, ctx |-> SessionContext])

\* the context returned by the get_session_context call that produced S
Cur(S) == S[Len(S)].ctx
\* assignments to fields of that context
With(S, c) == [S EXCEPT ![Len(S)].ctx = c]

(***************************************************************************)
(* Session accessors (agent.py:110-258).  A writer yields the new store, a *)
(* reader the new store s and the value v it returns.                      *)
(***************************************************************************)
\* should_use_name that grants the name in every greeting
should_use_name_in_every_greeting(S, session_id, is_greeting) ==
    LET S1 == get_session_context(S, session_id)
    IN  [s |-> S1,
         v |-> is_greeting
               \/ Cur(S1).turns_since_name_used >= NAME_COOLDOWN_TURNS]

should_use_name(S, session_id, is_greeting) ==
    LET S1 == get_session_context(S, session_id)
        ctx == Cur(S1)
    IN  [s |-> S1,
         v |-> IF is_greeting /\ ~ctx.name_used_in_greeting THEN TRUE
               ELSE IF ctx.turns_since_name_used >= NAME_COOLDOWN_TURNS THEN TRUE
               ELSE FALSE]

mark_name_used(S, session_id, in_greeting) ==
    LET S1 == get_session_context(S, session_id)
        c1 == [Cur(S1) EXCEPT !.turns_since_name_used = 0]
    IN  With(S1, IF in_greeting
                 THEN [c1 EXCEPT !.name_used_in_greeting = TRUE,
                                 !.greeted_this_session = TRUE]
                 ELSE c1)

increment_turn(S, session_id) ==
    LET S1 == get_session_context(S, session_id)
    IN  With(S1, [Cur(S1) EXCEPT !.turns_since_name_used = @ + 1])

\* add_to_history that never drops an old entry
add_to_history_unbounded(S, session_id, role, text) ==
    LET S1 == get_session_context(S, session_id)
    IN  With(S1, [Cur(S1) EXCEPT !.conversation_history =
                    Append(@, <<role, text>>)])

\* text[:200] + "..." if len(text) > 200 else text
TruncateForHistory(text) ==
    IF Len(text) > HISTORY_TEXT_LIMIT
    THEN SubSeq(text, 1, HISTORY_TEXT_LIMIT) \o "..."
    ELSE text

\* seq[-n:]
LastN(seq, n) ==
    IF Len(seq) > n THEN SubSeq(seq, Len(seq) - n + 1, Len(seq)) ELSE seq

add_to_history(S, session_id, role, text) ==
    LET S1 == get_session_context(S, session_id)
        h  == Append(Cur(S1).conversation_history,
                     <<role, TruncateForHistory(text)>>)
    IN  With(S1, [Cur(S1) EXCEPT !.conversation_history =
                    IF Len(h) > MAX_HISTORY_TURNS * 2
                    THEN LastN(h, MAX_HISTORY_TURNS * 2) ELSE h])

\* the prompt lines are the last 6 entries, "User: ..." / "VIC: ..."
get_history_context(S, session_id) ==
    LET S1 == get_session_context(S, session_id)
        h  == LastN(Cur(S1).conversation_history, 6)
    IN  [s |-> S1,
         v |-> [i \in DOMAIN h |->
                  (IF h[i][1] = "user" THEN "User: " ELSE "VIC: ") \o h[i][2]]]

\* set_current_topic that writes the topic into every context of the store
set_current_topic_everywhere(S, session_id, topic) ==
    LET S1 == get_session_context(S, session_id)
    IN  [i \in DOMAIN S1 |->
           [S1[i] EXCEPT !.ctx = [@ EXCEPT !.current_topic_context = topic,
                                           !.last_topic = topic]]]

\* set_current_topic that leaves last_topic as it was
set_current_topic_context_only(S, session_id, topic) ==
    LET S1 == get_session_context(S, session_id)
    IN  With(S1, [Cur(S1) EXCEPT !.current_topic_context = topic])

set_current_topic(S, session_id, topic) ==
    LET S1 == get_session_context(S, session_id)
    IN  With(S1, [Cur(S1) EXCEPT !.current_topic_context = topic,
                                 !.last_topic = topic])

get_current_topic(S, session_id) ==
    LET S1 == get_session_context(S, session_id)
        ctx == Cur(S1)
    IN  [s |-> S1,
         v |-> IF ctx.current_topic_context # "" THEN ctx.current_topic_context
               ELSE ctx.last_topic]

\* get_cached_user_context that never reports a cached context
get_cached_user_context_miss(S, session_id) ==
    [s |-> get_session_context(S, session_id),
     v |-> [user_name |-> None, user_context |-> NoContext, was_cached |-> FALSE]]

get_cached_user_context(S, session_id) ==
    LET S1 == get_session_context(S, session_id)
        ctx == Cur(S1)
    IN  [s |-> S1,
         v |-> IF ctx.context_fetched
               THEN [user_name |-> ctx.user_name,
                     user_context |-> ctx.user_context, was_cached |-> TRUE]
               ELSE [user_name |-> None,
                     user_context |-> NoContext, was_cached |-> FALSE]]

\* cache_user_context that leaves context_fetched as it was
cache_user_context_unmarked(S, session_id, user_name, user_context) ==
    LET S1 == get_session_context(S, session_id)
    IN  With(S1, [Cur(S1) EXCEPT !.user_name = user_name,
                                 !.user_context = user_context])

cache_user_context(S, session_id, user_name, user_context) ==
    LET S1 == get_session_context(S, session_id)
    IN  With(S1, [Cur(S1) EXCEPT !.user_name = user_name,
                                 !.user_context = user_context,
                                 !.context_fetched = TRUE])

prefetch_topic_content(S, session_id, topic, content, titles) ==
    LET S1 == get_session_context(S, session_id)
    IN  With(S1, [Cur(S1) EXCEPT !.prefetched_topic = topic,
                                 !.prefetched_content = content,
                                 !.prefetched_titles = titles])

get_prefetched_content(S, session_id, query) ==
    LET S1 == get_session_context(S, session_id)
        ctx == Cur(S1)
    IN  [s |-> S1,
         v |-> IF /\ ctx.prefetched_topic # ""
                  /\ Contains(Lower(ctx.prefetched_topic), Lower(query))
               THEN [content |-> ctx.prefetched_content,
                     titles |-> ctx.prefetched_titles]
               ELSE [content |-> None, titles |-> <<>>]]

set_last_suggestion(S, session_id, topic) ==
    LET S1 == get_session_context(S, session_id)
    IN  With(S1, [Cur(S1) EXCEPT !.last_suggested_topic = topic,
                                 !.suggestions = Append(@, topic)])

\* get_last_suggestion that consumes the suggestion it returns
get_last_suggestion_consume(S, session_id) ==
    LET S1 == get_session_context(S, session_id)
    IN  [s |-> With(S1, [Cur(S1) EXCEPT !.last_suggested_topic = ""]),
         v |-> IF Cur(S1).last_suggested_topic # ""
               THEN Cur(S1).last_suggested_topic ELSE None]

\* None is returned for the empty string
get_last_suggestion(S, session_id) ==
    LET S1 == get_session_context(S, session_id)
    IN  [s |-> S1,
         v |-> IF Cur(S1).last_suggested_topic # ""
               THEN Cur(S1).last_suggested_topic ELSE None]


(***************************************************************************)
(* Values the environment supplies.                                        *)
(***************************************************************************)
\* Session ids of the callers ("name|userId"); a request may also carry none.
SessionIdPool == <<"Dan|user123", "|u7", "anon|u9", "Eve|u2_a", "Sam|", " |u3", "default">>

\* The article store read by load_keyword_cache: rows in the order the
\* query returns them.
ArticleRows == <<
    [id |-> 1, title |-> "Thorney Island",
     topic_keywords |-> <<"thorney island", "thorney">>,
     teaser_location |-> "Westminster", teaser_era |-> "Medieval"],
    [id |-> 2, title |-> "Royal Aquarium",
     topic_keywords |-> <<"royal aquarium", "royal", "aquarium">>,
     teaser_location |-> "Westminster", teaser_era |-> "Victorian"]
>>

NoTouch == [kind |-> "none", key |-> None]
\* Record of the last direct helper call: which accessor kind, on which key,
\* the store's key order before it, the keys it evicted, and whether the call
\* before it was a hit on the oldest entry of a full store.
NoCall == [kind |-> "none", key |-> None, before |-> <<>>, evicted |-> {},
           prev_touched |-> NoTouch]

(***************************************************************************)
(* Teaser cache (agent.py:986-1084).  The dict is a sequence of            *)
(* [kw, teaser] in insertion order.                                        *)
(***************************************************************************)
TeaserData(row) ==
    [id |-> row.id, title |-> row.title,
     location |-> row.teaser_location, era |-> row.teaser_era]

\* get_teaser_from_cache returning None
NoTeaser == [id |-> 0, title |-> "", location |-> "", era |-> ""]

CacheKeys(cache) == { cache[i].kw : i \in DOMAIN cache }
CacheGet(cache, kw) == cache[CHOOSE i \in DOMAIN cache : cache[i].kw = kw].teaser

\* _keyword_cache[kw] = teaser: an existing key keeps its position
CachePut(cache, kw, teaser) ==
    IF kw \in CacheKeys(cache)
    THEN [i \in DOMAIN cache |->
            IF cache[i].kw = kw THEN [kw |-> kw, teaser |-> teaser] ELSE cache[i]]
    ELSE Append(cache, [kw |-> kw, teaser |-> teaser])

\* the inner loop keeping the first article of every keyword
RECURSIVE LoadKeywords_first_wins(_, _, _)
LoadKeywords_first_wins(cache, row, j) ==
    IF j > Len(row.topic_keywords) THEN cache
    ELSE LET kw_lower == Lower(row.topic_keywords[j])
             c2 == IF kw_lower \notin CacheKeys(cache)
                   THEN CachePut(cache, kw_lower, TeaserData(row))
                   ELSE cache
         IN  LoadKeywords_first_wins(c2, row, j + 1)

\* the inner loop over row['topic_keywords'], from keyword j on
RECURSIVE LoadKeywords(_, _, _)
LoadKeywords(cache, row, j) ==
    IF j > Len(row.topic_keywords) THEN cache
    ELSE LET kw_lower == Lower(row.topic_keywords[j])
             c2 == IF \/ kw_lower \notin CacheKeys(cache)
                      \/ Contains(Lower(row.title), kw_lower)
                   THEN CachePut(cache, kw_lower, TeaserData(row))
                   ELSE cache
         IN  LoadKeywords(c2, row, j + 1)

\* the loop over the rows, from row i on; the dict is not cleared first
RECURSIVE LoadRows(_, _, _)
LoadRows(cache, rows, i) ==
    IF i > Len(rows) THEN cache
    ELSE LoadRows(LoadKeywords(cache, rows[i], 1), rows, i + 1)

load_keyword_cache(cache, rows) == LoadRows(cache, rows, 1)

\* max(matching_keywords, key=len): the first of the longest, in dict order
BestMatch(cache, query_lower) ==
    LET match(i) == Contains(cache[i].kw, " ") /\ Contains(query_lower, cache[i].kw)
        best == CHOOSE i \in DOMAIN cache :
                    /\ match(i)
                    /\ \A j \in DOMAIN cache :
                          match(j) => \/ Len(cache[j].kw) < Len(cache[i].kw)
                                      \/ (Len(cache[j].kw) = Len(cache[i].kw) /\ i <= j)
    IN  cache[best].teaser

\* for word in query_lower.split(): the first word longer than 3 in the cache
RECURSIVE FirstWordMatch(_, _, _)
FirstWordMatch(cache, words, i) ==
    IF i > Len(words) THEN NoTeaser
    ELSE IF Len(words[i]) > 3 /\ words[i] \in CacheKeys(cache)
         THEN CacheGet(cache, words[i])
         ELSE FirstWordMatch(cache, words, i + 1)

\* the lookup trying the single words before the phrases
get_teaser_words_first(cache, loaded, query) ==
    LET query_lower == Strip(Lower(query))
        by_word == FirstWordMatch(cache, Split(query_lower), 1)
    IN  IF ~loaded THEN NoTeaser
        ELSE IF query_lower \in CacheKeys(cache) THEN CacheGet(cache, query_lower)
        ELSE IF by_word # NoTeaser THEN by_word
        ELSE IF \E i \in DOMAIN cache :
                    Contains(cache[i].kw, " ") /\ Contains(query_lower, cache[i].kw)
             THEN BestMatch(cache, query_lower)
        ELSE NoTeaser

get_teaser_from_cache(cache, loaded, query) ==
    LET query_lower == Strip(Lower(query))
    IN  IF ~loaded THEN NoTeaser
        ELSE IF query_lower \in CacheKeys(cache) THEN CacheGet(cache, query_lower)
        ELSE IF \E i \in DOMAIN cache :
                    Contains(cache[i].kw, " ") /\ Contains(query_lower, cache[i].kw)
             THEN BestMatch(cache, query_lower)
        ELSE FirstWordMatch(cache, Split(query_lower), 1)

(***************************************************************************)
(* Session id parsing (agent.py:1286-1294, 1393-1398).                     *)
(***************************************************************************)
\* Python truthiness of an Optional[str]
Truthy(x) == x # None /\ x # ""

extract_user_name_from_session(session_id) ==
    IF ~Truthy(session_id) THEN None
    ELSE IF Contains(session_id, "|")
         THEN LET name == SplitHead(session_id, "|")
              IN  IF name # "" /\ Len(name) > 1 /\ Lower(name) # "anon"
                  THEN name ELSE None
         ELSE None

extract_user_id(session_id) ==
    IF Truthy(session_id) /\ Contains(session_id, "|")
    THEN LET second == SplitSecond(session_id, "|")
         IN  IF second # "" THEN SplitHead(second, "_") ELSE None
    ELSE None

\* session_id or "default"
SessionKey(session_id) == IF Truthy(session_id) THEN session_id ELSE "default"

(***************************************************************************)
(* Fixed response texts of clm_endpoint.                                   *)
(***************************************************************************)
NoisePrompt(topic) ==
    "Would you like to know more about " \o topic
        \o ", or shall we explore something else?"
EasterEggText == "Ah, Rosie, my loving wife! I'll be home for dinner."
GreetInterestText(name, topic) ==
    "Welcome back, " \o name \o "! I remember you were interested in " \o topic
        \o ". Shall we explore that further, or would you like to discover something new?"
GreetReturningText(name) ==
    "Welcome back to Lost London, " \o name
        \o "! Lovely to hear from you again. What corner of London's hidden history shall we explore today?"
GreetNamedText(name) ==
    "Welcome to Lost London, " \o name
        \o "! I'm Vic Keegan. I've spent years uncovering this city's hidden stories. Shall I tell you about Thorney Island, the mysterious island beneath Westminster?"
GreetAnonymousText ==
    "Welcome to Lost London! I'm Vic Keegan, historian and author. I've collected over 370 stories about London's hidden history. Shall I tell you about the Royal Aquarium, Westminster's vanished pleasure palace?"
AlreadyGreetedText ==
    "What would you like to explore? I've got stories about Thorney Island, the Royal Aquarium, hidden rivers, and much more."
NameKnownText(name) ==
    "You're " \o name
        \o ", of course! Now, what would you like to explore in London's hidden history?"
NameUnknownText ==
    "I don't believe you've told me your name yet. What should I call you?"
IdentityText ==
    "I'm Vic Keegan, London historian and author. I've written Lost London Volume 1 and Volume 2, plus my latest book Thorney: London's Forgotten Island, about the hidden island beneath Westminster. I've been researching London's hidden history for years, and I've got 372 articles covering everything from Roman London to Victorian music halls. Would you like to hear about any particular corner of London's past?"
NoSuggestionText ==
    "What would you like to hear about? I've got fascinating stories about Thorney Island, the Royal Aquarium, London's hidden rivers, and much more."
NoArticlesText ==
    "I don't seem to have any articles about that in my collection. Would you like to explore something else? I've got stories about Thorney Island, the Royal Aquarium, Tyburn, and many other hidden corners of London."
SearchTroubleText ==
    "I'm having a bit of trouble searching my records at the moment. Could you try asking again?"
TeaserFallbackText(teaser) ==
    "Ah, " \o teaser.title \o "! A fascinating topic"
        \o (IF teaser.era # "" THEN " from the " \o teaser.era \o " era" ELSE "")
        \o " in " \o (IF teaser.location # "" THEN teaser.location ELSE "London")
        \o ". Shall I tell you more?"

GREETING_WORDS == {"hello", "hi", "hey", "hiya", "howdy", "greetings", "start"}
NAME_QUESTIONS == {"what is my name", "what's my name", "do you know my name",
                   "who am i"}
IDENTITY_KEYWORDS == {"who are you", "what are you", "your name", "about yourself",
                      "books have you written", "your books", "did you write",
                      "tell me about you", "introduce yourself"}
AFFIRMATION_WORDS == {"yes", "yeah", "yep", "yup", "sure", "okay", "ok", "please",
                      "aye", "absolutely", "definitely", "certainly", "indeed",
                      "alright", "right"}
AFFIRMATION_PHRASES == {"go on", "tell me more", "tell me", "go ahead",
                        "yes please", "sure thing", "of course", "i'd like that",
                        "i would like that", "sounds good", "sounds great",
                        "let's do it", "let's hear it", "why not",
                        "i'm interested", "please do"}
VAGUE_INDICATORS_STAGE1 == {"it", "that", "this", "there", "they", "them", "its",
                            "the"}
VAGUE_INDICATORS_STAGE2 == {"it", "that", "this", "there", "they", "them", "its"}
QUESTION_STARTS == {"what ", "where ", "when ", "why ", "how ", "who "}

is_greeting_request(user_msg, normalized) ==
    LET normalized_lower == Strip(Lower(normalized))
    IN  \/ Contains(Lower(user_msg), "speak your greeting")
        \/ normalized_lower \in GREETING_WORDS
        \/ StartsWith(normalized_lower, "hello ")
        \/ StartsWith(normalized_lower, "hi ")

is_name_question(normalized) ==
    \E nq \in NAME_QUESTIONS : Contains(Lower(normalized), nq)

is_identity_question(normalized) ==
    \E kw \in IDENTITY_KEYWORDS : Contains(Lower(normalized), kw)

is_affirmation(normalized) ==
    LET normalized_lower == Strip(Lower(normalized))
    IN  \/ normalized_lower \in AFFIRMATION_WORDS
        \/ normalized_lower \in AFFIRMATION_PHRASES
        \/ \E phrase \in AFFIRMATION_PHRASES : Contains(normalized_lower, phrase)

\* [w.strip(string.punctuation).lower() for w in normalized_query.split()]
query_words_clean(normalized) ==
    LET ws == Split(normalized)
    IN  [i \in DOMAIN ws |-> Lower(StripBy(ws[i], PunctSet))]

\* Stage 1 test (agent.py:1666-1670)
is_vague_followup_stage1(normalized, existing_topic) ==
    LET qw == query_words_clean(normalized)
        tw == Split(Lower(existing_topic))
    IN  /\ \E i \in DOMAIN qw : qw[i] \in VAGUE_INDICATORS_STAGE1
        /\ Len(qw) < 8
        /\ ~\E j \in DOMAIN tw : j <= 3 /\ Contains(Lower(normalized), tw[j])

\* Stage 2 test (agent.py:1803-1807): a or (b and c)
is_vague_followup_stage2(normalized) ==
    LET qw == query_words_clean(normalized)
    IN  \/ \E i \in DOMAIN qw : qw[i] \in VAGUE_INDICATORS_STAGE2
        \/ /\ \E p \in QUESTION_STARTS : StartsWith(Lower(normalized), p)
           /\ Len(qw) < 6


(***************************************************************************)
(* Voice truncation (agent.py:1764-1774, 1873-1887).                       *)
(***************************************************************************)
\* ' '.join(ws[i-1:n]), joined by halves
RECURSIVE JoinWords(_, _, _)
JoinWords(ws, i, n) ==
    LET hi == IF n < Len(ws) THEN n ELSE Len(ws)
    IN  IF i > hi THEN ""
        ELSE IF i = hi THEN ws[i]
        ELSE LET m == (i + hi) \div 2
             IN  JoinWords(ws, i, m) \o " " \o JoinWords(ws, m + 1, hi)

\* s.rfind(c) + 1: the last position of c in s, 0 when absent
RFind(s, c) ==
    IF \E i \in 1..Len(s) : Char(s, i) = c
    THEN CHOOSE i \in 1..Len(s) :
            Char(s, i) = c /\ \A j \in (i + 1)..Len(s) : Char(s, j) # c
    ELSE 0


\* max_words/keep_words/min_pos are 100/80/50 in the search path and 80/70/40
\* in the pre-loaded path
truncate_for_voice(text, max_words, keep_words, min_pos, follow_up) ==
    LET words == Split(text)
    IN  IF Len(words) > max_words
        THEN LET t0 == JoinWords(words, 1, keep_words)
                 found == {RFind(t0, "."), RFind(t0, "!"), RFind(t0, "?")}
                 last_period == (CHOOSE m \in found : \A x \in found : x <= m) - 1
                 t1 == IF last_period > min_pos THEN SubSeq(t0, 1, last_period + 1)
                       ELSE t0
                 tail == IF Len(t1) > 30 THEN SubSeq(t1, Len(t1) - 29, Len(t1)) ELSE t1
             IN  IF ~Contains(tail, "?") THEN t1 \o follow_up ELSE t1
        ELSE text

(***************************************************************************)
(* External collaborators: what a call may return.                         *)
(***************************************************************************)
\* get_user_memory results (agent.py:334-360).  Without a client, or when the
\* graph search raises, the not-found dict; otherwise the facts found.  A
\* search that finds no fact differs from the not-found dict only in "found",
\* which clm_endpoint never reads, and is left out.
MemoryNotFound == [none |-> FALSE, found |-> FALSE, is_returning |-> FALSE,
                   facts |-> <<>>, user_name |-> None]
MemoryReturning(name) ==
    [none |-> FALSE, found |-> TRUE, is_returning |-> TRUE,
     facts |-> <<"interested in hidden rivers">>, user_name |-> name]

\* get_user_memory that hands on the facts it has when the search raises
get_user_memory_despite_error(client, search) ==
    IF ~client THEN MemoryNotFound
    ELSE MemoryReturning(IF search = "facts_of_dana" THEN "Dana" ELSE None)

\* get_user_memory (agent.py:334-360): without a client no call is made;
\* search is what client.graph.search does: it raises, or it returns facts
\* that name nobody or name Dana
get_user_memory(client, search) ==
    IF ~client THEN MemoryNotFound
    ELSE IF search = "raises" THEN MemoryNotFound
    ELSE MemoryReturning(IF search = "facts_of_dana" THEN "Dana" ELSE None)

\* store_to_memory that reports success whatever the provider did
store_to_memory_optimistic(client, call) ==
    [unavailable |-> ~client \/ call = "raises", returned |-> TRUE]

\* store_to_memory (agent.py:363-385): call is what client.thread.add_messages
\* does; the record holds whether the provider was unavailable and the
\* value the function returned
store_to_memory(client, call) ==
    IF ~client THEN [unavailable |-> TRUE, returned |-> FALSE]
    ELSE IF call = "raises" THEN [unavailable |-> TRUE, returned |-> FALSE]
    ELSE [unavailable |-> FALSE, returned |-> TRUE]

\* user_context.get("interests", [])
Interests(user_context) ==
    IF "interests" \in DOMAIN user_context THEN user_context.interests ELSE <<>>

\* search_articles: an exception, no article, or articles led by a title
ArticleTitles == { ArticleRows[i].title : i \in DOMAIN ArticleRows }
SearchOutcomes == {"error", "empty"} \cup ArticleTitles

\* what the language models answer
TeaserAnswer(teaser) == "Ah, " \o teaser.title \o ". Shall I tell you more?"
DetailAnswer == "It stood in Westminster for centuries. Would you like to know more?"

(***************************************************************************)
(* clm_endpoint (agent.py:1337-1910) as a coroutine: pc is the await the   *)
(* request is suspended at.                                                *)
(***************************************************************************)
\* Concurrent requests the event loop may hold.
MaxInFlight == 2
Slots == 1..MaxInFlight

IdleReq ==
    [pc |-> "idle",
     session_id |-> None, user_msg |-> "", sys_name |-> None,
     user_name |-> None, user_id |-> None, user_context |-> NoContext,
     was_cached |-> FALSE,
     normalized_query |-> "", skip_to_full_response |-> FALSE,
     teaser |-> NoTeaser, current_topic_for_search |-> "",
     search_query |-> "", bg_query |-> "",
     response_text |-> "", stage |-> "",
     \* bookkeeping of what the request did
     new_session |-> FALSE,       \* its session key was not in the store
     start_greeted |-> FALSE,     \* greeted_this_session when it arrived
     start_suggestion |-> "",     \* last_suggested_topic when it arrived
     mem_lookups |-> 0,           \* get_user_memory calls
     prof_lookups |-> 0,          \* get_user_preferred_name calls
     zep_after_fetch |-> 0,       \* provider calls made with context_fetched set
     mem_unavailable |-> FALSE,   \* get_user_memory had no client or its
                                  \*   search raised
     stored |-> <<>>,             \* what the store_to_memory calls returned
     teaser_consulted |-> FALSE]  \* get_teaser_from_cache was called

\* every utterance of the model
AllMessages ==
    {"hello", "hi", "speak your greeting", "yes please", "ok",
     "tell me about the fawney", "thorney island", "what happened to it",
     "the royal aquariam", "{calm}", "london bridge history",
     "hello rosie", "hello who am i", "who am i and who are you",
     "tell me about yourself", "royal aquarium"}

\* session ids of the model, parsed once (agent.py:1393-1398)
SessionTable ==
    [sid \in {None} \cup { SessionIdPool[i] : i \in DOMAIN SessionIdPool } |->
        [user_name |-> extract_user_name_from_session(sid),
         user_id |-> extract_user_id(sid)]]

\* the chain with the greeting test ahead of the noise filter
Classify_greeting_first(user_msg) ==
    LET normalized == normalize_query(user_msg)
        clean == clean_query(normalized)
    IN  [clean |-> clean,
         branch |->
            IF is_greeting_request(user_msg, clean) THEN "greeting"
            ELSE IF is_noise(clean) THEN "noise"
            ELSE IF Contains(Lower(clean), "rosie") THEN "easter_egg"
            ELSE IF is_name_question(clean) THEN "name_question"
            ELSE IF is_identity_question(clean) THEN "identity"
            ELSE IF is_affirmation(clean) THEN "affirmation"
            ELSE "query"]

\* the branch of the classification chain an utterance takes
\* (agent.py:1467-1643), and its cleaned query
Classify(user_msg) ==
    LET normalized == normalize_query(user_msg)
        clean == clean_query(normalized)
    IN  [clean |-> clean,
         branch |->
            IF is_noise(clean) THEN "noise"
            ELSE IF Contains(Lower(clean), "rosie") THEN "easter_egg"
            ELSE IF is_greeting_request(user_msg, clean) THEN "greeting"
            ELSE IF is_name_question(clean) THEN "name_question"
            ELSE IF is_identity_question(clean) THEN "identity"
            ELSE IF is_affirmation(clean) THEN "affirmation"
            ELSE "query"]
ClassifyTable == [m \in AllMessages |-> Classify(m)]

\* the queries the later stages can see: a cleaned utterance or a suggestion
Queries == { ClassifyTable[m].clean : m \in AllMessages } \cup ArticleTitles
LoadedCache == load_keyword_cache(<<>>, ArticleRows)
TeaserTable ==
    [q \in Queries |-> get_teaser_from_cache(LoadedCache, TRUE, q)]
TeaserLookup(cache, loaded, q) ==
    IF cache = LoadedCache /\ loaded /\ q \in Queries
    THEN TeaserTable[q]
    ELSE get_teaser_from_cache(cache, loaded, q)
VagueTable ==
    [q \in Queries |->
        [stage1 |-> [t \in ArticleTitles |-> is_vague_followup_stage1(q, t)],
         stage2 |-> is_vague_followup_stage2(q)]]
VagueStage1(q, topic) ==
    IF q \in Queries /\ topic \in ArticleTitles
    THEN VagueTable[q].stage1[topic]
    ELSE is_vague_followup_stage1(q, topic)
VagueStage2(q) ==
    IF q \in Queries THEN VagueTable[q].stage2 ELSE is_vague_followup_stage2(q)

\* the two truncated answers (agent.py:1764-1774, 1873-1887)
PrefetchedResponse ==
    truncate_for_voice(DetailAnswer, 80, 70, 40, " Shall I tell you more?")
SearchResponse ==
    truncate_for_voice(DetailAnswer, 100, 80, 50, " Would you like to know more?")

\* del _background_results[key]
BgKeys(B) == { B[i].key : i \in DOMAIN B }
BgGet(B, k) == B[CHOOSE i \in DOMAIN B : B[i].key = k]
BgPut(B, rec) ==
    IF rec.key \in BgKeys(B)
    THEN [i \in DOMAIN B |-> IF B[i].key = rec.key THEN rec ELSE B[i]]
    ELSE Append(B, rec)

\* the request returns its StreamingResponse
Finish(S, r, T, B, stage, text) ==
    [s |-> S, tasks |-> T, bg |-> B,
     r |-> [r EXCEPT !.pc = "done", !.stage = stage, !.response_text = text]]

\* the request suspends at an await
Suspend(S, r, T, B, pc, stage) ==
    [s |-> S, tasks |-> T, bg |-> B,
     r |-> [r EXCEPT !.pc = pc, !.stage = stage]]

\* the noise stage looking at the topic anchor only
NoiseStage_anchor_only(S, r, T, B) ==
    LET key == SessionKey(r.session_id)
        ct  == get_current_topic(S, key)
    IN  IF ct.v # ""
        THEN Finish(add_to_history(ct.s, key, "assistant", NoisePrompt(ct.v)),
                    r, T, B, "noise", NoisePrompt(ct.v))
        ELSE Finish(ct.s, r, T, B, "noise", "")

\* agent.py:1485-1508
NoiseStage(S, r, T, B) ==
    LET key == SessionKey(r.session_id)
        ct  == get_current_topic(S, key)
        ls  == get_last_suggestion(ct.s, key)
        last_topic == IF Truthy(ls.v) THEN ls.v ELSE ct.v
    IN  IF last_topic # ""
        THEN Finish(add_to_history(ls.s, key, "assistant", NoisePrompt(last_topic)),
                    r, T, B, "noise", NoisePrompt(last_topic))
        ELSE Finish(ls.s, r, T, B, "noise", "")

\* the greeting stage that greets without setting greeted_this_session
GreetingStage_unmarked(S, r, T, B) ==
    LET S1 == get_session_context(S, SessionKey(r.session_id))
    IN  IF ~Cur(S1).greeted_this_session
        THEN Finish(S1, r, T, B, "greeting_anonymous", GreetAnonymousText)
        ELSE Finish(S1, r, T, B, "greeting_repeat", AlreadyGreetedText)

\* agent.py:1533-1571
GreetingStage(S, r, T, B) ==
    LET key == SessionKey(r.session_id)
        S1  == get_session_context(S, key)
        is_returning == ~r.user_context.none /\ r.user_context.is_returning
        user_interests == IF r.user_context.none THEN <<>>
                          ELSE Interests(r.user_context)
        greet(S2, kind, text) ==
            Finish(With(S2, [Cur(S2) EXCEPT !.greeted_this_session = TRUE]),
                   r, T, B, kind, text)
    IN  IF ~Cur(S1).greeted_this_session
        THEN IF is_returning /\ Truthy(r.user_name) /\ user_interests # <<>>
             THEN greet(mark_name_used(
                          set_last_suggestion(S1, key, user_interests[1]), key, TRUE),
                        "greeting_interest",
                        GreetInterestText(r.user_name, user_interests[1]))
             ELSE IF is_returning /\ Truthy(r.user_name)
             THEN greet(mark_name_used(S1, key, TRUE),
                        "greeting_returning", GreetReturningText(r.user_name))
             ELSE IF Truthy(r.user_name)
             THEN greet(mark_name_used(
                          set_last_suggestion(S1, key, "Thorney Island"), key, TRUE),
                        "greeting_named", GreetNamedText(r.user_name))
             ELSE greet(set_last_suggestion(S1, key, "Royal Aquarium"),
                        "greeting_anonymous", GreetAnonymousText)
        ELSE Finish(S1, r, T, B, "greeting_repeat", AlreadyGreetedText)

\* Stage 2 that waits for the session's pending prefetch
Stage2_awaits_task(S, r, T, B) ==
    LET key == SessionKey(r.session_id)
    IN  IF key \in BgKeys(B) /\ BgGet(B, key).ready
        THEN LET S1 == add_to_history(S, key, "user", r.user_msg)
                 S2 == get_history_context(S1, key).s
                 S3 == get_current_topic(S2, key).s
             IN  Suspend(S3, [r EXCEPT !.bg_query = BgGet(B, key).query],
                         T, RemoveAt(B, CHOOSE i \in DOMAIN B : B[i].key = key),
                         "bg_llm", "prefetched")
        ELSE IF \E i \in DOMAIN T : T[i].session_id = key
        THEN Suspend(S, r, T, B, "await_task", "prefetched")
        ELSE LET S1 == add_to_history(S, key, "user", r.user_msg)
                 ct == get_current_topic(S1, key)
             IN  Suspend(ct.s, [r EXCEPT !.current_topic_for_search = ct.v,
                                         !.search_query = r.normalized_query],
                         T, B, "search", "search")

\* Stage 2 (agent.py:1719-1813), up to its first await
Stage2(S, r, T, B) ==
    LET key == SessionKey(r.session_id)
    IN  IF key \in BgKeys(B) /\ BgGet(B, key).ready
        THEN LET S1 == add_to_history(S, key, "user", r.user_msg)
                 S2 == get_history_context(S1, key).s
                 S3 == get_current_topic(S2, key).s
             IN  Suspend(S3, [r EXCEPT !.bg_query = BgGet(B, key).query],
                         T, RemoveAt(B, CHOOSE i \in DOMAIN B : B[i].key = key),
                         "bg_llm", "prefetched")
        ELSE LET S1 == add_to_history(S, key, "user", r.user_msg)
                 ct == get_current_topic(S1, key)
                 sq == IF ct.v # "" /\ VagueStage2(r.normalized_query)
                       THEN ct.v \o " " \o r.normalized_query
                       ELSE r.normalized_query
             IN  Suspend(ct.s, [r EXCEPT !.current_topic_for_search = ct.v,
                                         !.search_query = sq],
                         T, B, "search", "search")

\* the teaser hit that records the topic but neither the suggestion nor
\* the prefetch
Stage1Teaser_topic_only(S, r, T, B, teaser) ==
    LET key == SessionKey(r.session_id)
        S2 == add_to_history(S, key, "user", r.user_msg)
        S3 == set_current_topic(S2, key, teaser.title)
        S5 == get_history_context(S3, key).s
        S6 == get_current_topic(S5, key).s
    IN  Suspend(S6, [r EXCEPT !.teaser = teaser], T, B, "teaser_llm", "teaser")

\* Stage 1 on a teaser hit (agent.py:1677-1701), up to the await
Stage1Teaser(S, r, T, B, teaser) ==
    LET key == SessionKey(r.session_id)
        S2 == add_to_history(S, key, "user", r.user_msg)
        S3 == set_current_topic(S2, key, teaser.title)
        S4 == set_last_suggestion(S3, key, teaser.title)
        T1 == Append(T, [query |-> r.normalized_query, session_id |-> key])
        S5 == get_history_context(S4, key).s
        S6 == get_current_topic(S5, key).s
    IN  Suspend(S6, [r EXCEPT !.teaser = teaser], T1, B, "teaser_llm", "teaser")

\* the teaser decision (agent.py:1674-1677)
Stage1Lookup(S, r, T, B, teaser) ==
    IF teaser # NoTeaser THEN Stage1Teaser(S, r, T, B, teaser)
    ELSE Stage2(S, r, T, B)

\* the vague follow-up test and the cache lookup (agent.py:1656-1675)
Stage1Topic(S, r, T, B, existing_topic) ==
    LET is_vague_followup ==
            /\ existing_topic # ""
            /\ ~r.skip_to_full_response
            /\ VagueStage1(r.normalized_query, existing_topic)
        consult == ~(r.skip_to_full_response \/ is_vague_followup)
    IN  Stage1Lookup(S, [r EXCEPT !.teaser_consulted = consult], T, B,
                     IF consult
                     THEN TeaserLookup(keyword_cache, cache_loaded,
                                       r.normalized_query)
                     ELSE NoTeaser)

\* increment_turn and Stage 1 (agent.py:1645-1701), up to the first await
Stage1(S, r, T, B) ==
    LET et == get_current_topic(increment_turn(S, r.session_id),
                                SessionKey(r.session_id))
    IN  Stage1Topic(et.s, r, T, B, et.v)

\* the affirmation decision without its terminal branch
Resolve_fallthrough(ls, r, T, B, c) ==
    Stage1(ls.s,
           [r EXCEPT !.normalized_query =
                         IF c.branch = "affirmation" /\ Truthy(ls.v)
                         THEN ls.v ELSE c.clean,
                     !.skip_to_full_response =
                         (c.branch = "affirmation" /\ Truthy(ls.v))],
           T, B)

\* the affirmation decision (agent.py:1623-1643): ls is what
\* get_last_suggestion gave for an affirmation
Resolve(ls, r, T, B, c) ==
    IF c.branch = "affirmation" /\ ~Truthy(ls.v)
    THEN Finish(ls.s, [r EXCEPT !.normalized_query = c.clean],
                T, B, "affirmation_prompt", NoSuggestionText)
    ELSE Stage1(ls.s,
                [r EXCEPT !.normalized_query =
                              IF c.branch = "affirmation" THEN ls.v ELSE c.clean,
                          !.skip_to_full_response = (c.branch = "affirmation")],
                T, B)

\* the chain with increment_turn ahead of the canned answers
Route_counting(S, r, T, B, c) ==
    IF c.branch = "noise" THEN NoiseStage(S, r, T, B)
    ELSE IF c.branch = "easter_egg"
    THEN Finish(increment_turn(S, r.session_id), r, T, B,
                "easter_egg", EasterEggText)
    ELSE IF c.branch = "greeting"
    THEN GreetingStage(S, r, T, B)
    ELSE IF c.branch = "name_question"
    THEN Finish(increment_turn(S, r.session_id), r, T, B, "name_question",
                IF Truthy(r.user_name) THEN NameKnownText(r.user_name)
                ELSE NameUnknownText)
    ELSE IF c.branch = "identity"
    THEN Finish(increment_turn(S, r.session_id), r, T, B,
                "identity", IdentityText)
    ELSE Resolve(IF c.branch = "affirmation"
                 THEN get_last_suggestion(S, SessionKey(r.session_id))
                 ELSE [s |-> S, v |-> None],
                 r, T, B, c)

\* the classification chain (agent.py:1467-1643) for an utterance classified c
Route(S, r, T, B, c) ==
    IF c.branch = "noise" THEN NoiseStage(S, r, T, B)
    ELSE IF c.branch = "easter_egg"
    THEN Finish(S, r, T, B, "easter_egg", EasterEggText)
    ELSE IF c.branch = "greeting"
    THEN GreetingStage(S, r, T, B)
    ELSE IF c.branch = "name_question"
    THEN Finish(S, r, T, B, "name_question",
                IF Truthy(r.user_name) THEN NameKnownText(r.user_name)
                ELSE NameUnknownText)
    ELSE IF c.branch = "identity"
    THEN Finish(S, r, T, B, "identity", IdentityText)
    ELSE Resolve(IF c.branch = "affirmation"
                 THEN get_last_suggestion(S, SessionKey(r.session_id))
                 ELSE [s |-> S, v |-> None],
                 r, T, B, c)

Dispatch(S, r, T, B) == Route(S, r, T, B, ClassifyTable[r.user_msg])

\* Everything but the session store, as it is when the process has started
\* and nothing has been asked yet.
InitRest(cache, zep, sids, msgs, names, turns) ==
    /\ background_results = <<>>
    /\ keyword_cache = cache
    /\ cache_loaded = TRUE
    /\ zep_client \in zep
    /\ reqs = [i \in Slots |-> IdleReq]
    /\ tasks = <<>>
    /\ nreq = 0
    /\ nops = 0
    /\ last_call = NoCall
    /\ in_sids = sids
    /\ in_msgs = msgs
    /\ in_names = names
    /\ in_turns = turns
    /\ articles = ArticleRows
    /\ admin = [pc |-> "idle", n |-> 0]
    /\ probe = <<>>

(***************************************************************************)
(* Direct calls of the session accessors.                                  *)
(***************************************************************************)
StoreTopics == {"Thorney Island"}

HelperCall(kind, key, S) ==
    /\ nops < MaxStoreOps
    /\ nops' = nops + 1
    /\ session_contexts' = S
    /\ last_call' =
          [kind |-> kind, key |-> key,
           before |-> KeySeq(session_contexts),
           evicted |-> Keys(session_contexts) \ Keys(S),
           prev_touched |->
              IF /\ last_call.kind # "none"
                 /\ Len(last_call.before) = MAX_SESSIONS
                 /\ Head(last_call.before) = last_call.key
              THEN [kind |-> last_call.kind, key |-> last_call.key]
              ELSE NoTouch]
    /\ UNCHANGED <<background_results, keyword_cache, cache_loaded, zep_client,
                   reqs, tasks, nreq, in_sids, in_msgs, in_names, in_turns,
                   articles,
                   admin, probe>>

NextStore ==
    \/ \E k \in in_sids :
           HelperCall("read", k, get_session_context(session_contexts, k))
    \/ \E k \in in_sids, g \in BOOLEAN :
           HelperCall("read", k, should_use_name(session_contexts, k, g).s)
    \/ \E k \in in_sids, g \in BOOLEAN :
           HelperCall("write", k, mark_name_used(session_contexts, k, g))
    \/ \E k \in in_sids :
           HelperCall("write", k, increment_turn(session_contexts, k))
    \/ \E k \in in_sids, role \in {"user", "assistant"}, m \in in_msgs :
           HelperCall("write", k, add_to_history(session_contexts, k, role, m))
    \/ \E k \in in_sids :
           HelperCall("read", k, get_history_context(session_contexts, k).s)
    \/ \E k \in in_sids, t \in StoreTopics :
           HelperCall("write", k, set_current_topic(session_contexts, k, t))
    \/ \E k \in in_sids :
           HelperCall("read", k, get_current_topic(session_contexts, k).s)
    \/ \E k \in in_sids :
           HelperCall("read", k, get_cached_user_context(session_contexts, k).s)
    \/ \E k \in in_sids, n \in in_names :
           HelperCall("write", k,
                      cache_user_context(session_contexts, k, n, NoContext))
    \/ \E k \in in_sids, t \in StoreTopics :
           HelperCall("write", k,
                      prefetch_topic_content(session_contexts, k, t, "text", <<t>>))
    \/ \E k \in in_sids, t \in StoreTopics :
           HelperCall("read", k, get_prefetched_content(session_contexts, k, t).s)
    \/ \E k \in in_sids, t \in StoreTopics :
           HelperCall("write", k, set_last_suggestion(session_contexts, k, t))
    \/ \E k \in in_sids :
           HelperCall("read", k, get_last_suggestion(session_contexts, k).s)

SpecStore ==
    /\ session_contexts = <<>>
    /\ InitRest(<<>>, {FALSE},
                { SessionIdPool[i] : i \in 1..(MAX_SESSIONS + 1) },
                {"hello"}, {None, "Dan"}, 0)
    /\ [][NextStore]_vars

\* Direct calls of should_use_name, mark_name_used and increment_turn
\* (agent.py:110-141) on a store of MAX_SESSIONS entries.  probe is the log
\* of the calls: for every session for which mark_name_used was called, how
\* mark_name_used was last called, the increment_turn calls since (counted
\* up to NAME_COOLDOWN_TURNS) and whether the session left the store since.
SpecName ==
    /\ session_contexts = <<>>
    /\ InitRest(<<>>, {FALSE},
                { SessionIdPool[i] : i \in 1..(MAX_SESSIONS + 1) },
                {"hello"}, {None}, 0)
    /\ [][/\ nops < MaxNameCalls
          /\ nops' = nops + 1
          /\ \E k \in in_sids :
                LET Logged(S, log) ==
                        [i \in DOMAIN log |->
                            [log[i] EXCEPT !.evicted =
                                @ \/ log[i].key \notin Keys(S)]]
                    Without == SelectSeq(probe, LAMBDA e : e.key # k)
                IN  \/ \E g \in BOOLEAN :
                          /\ session_contexts' =
                                mark_name_used(session_contexts, k, g)
                          /\ probe' = Logged(session_contexts',
                                Append(Without,
                                       [key |-> k, in_greeting |-> g,
                                        turns |-> 0, evicted |-> FALSE]))
                    \/ /\ session_contexts' =
                              increment_turn(session_contexts, k)
                       /\ probe' = Logged(session_contexts',
                             [i \in DOMAIN probe |->
                                 IF probe[i].key = k
                                    /\ probe[i].turns < NAME_COOLDOWN_TURNS
                                 THEN [probe[i] EXCEPT !.turns = @ + 1]
                                 ELSE probe[i]])
                    \/ \E g \in BOOLEAN :
                          /\ session_contexts' =
                                should_use_name(session_contexts, k, g).s
                          /\ probe' = Logged(session_contexts', probe)
          /\ UNCHANGED <<background_results, keyword_cache, cache_loaded,
                         zep_client, reqs, tasks, nreq, last_call, in_sids,
                         in_msgs, in_names, in_turns, articles, admin>>
       ]_vars


(***************************************************************************)
(* Actions of the request coroutines and of the background task.           *)
(***************************************************************************)
Key(slot) == SessionKey(reqs[slot].session_id)

\* the state after a request ran up to its next await or to its return
Apply(slot, res) ==
    /\ session_contexts' = res.s
    /\ reqs' = [reqs EXCEPT ![slot] = res.r]
    /\ tasks' = res.tasks
    /\ background_results' = res.bg

\* agent.py:1404-1454: g is what get_cached_user_context gave; the request
\* goes on with the cached context, suspends at the gather, or caches what it
\* has when the session carries no user id
Lookup(g, r) ==
    IF ~g.v.was_cached /\ Truthy(r.user_id)
    THEN Suspend(g.s,
                 [r EXCEPT !.mem_lookups = 1,
                           !.prof_lookups = IF Truthy(r.user_name) THEN 0 ELSE 1],
                 tasks, background_results, "fetch", "")
    ELSE Dispatch(IF g.v.was_cached THEN g.s
                  ELSE cache_user_context(g.s, SessionKey(r.session_id),
                                          r.user_name, NoContext),
                  [r EXCEPT !.was_cached = g.v.was_cached,
                            !.user_name =
                                IF g.v.was_cached /\ Truthy(g.v.user_name)
                                   /\ ~Truthy(r.user_name)
                                THEN g.v.user_name ELSE r.user_name,
                            !.user_context = g.v.user_context],
                  tasks, background_results)

\* agent.py:1348-1465: from the call to the gather await, or beyond when the
\* context is cached or the session carries no user id
Begin(session_id, user_msg, sys_name) ==
    LET key == SessionKey(session_id)
        from_session == SessionTable[session_id].user_name
    IN  Lookup(get_cached_user_context(session_contexts, key),
               [IdleReq EXCEPT
                   !.session_id = session_id, !.user_msg = user_msg,
                   !.sys_name = sys_name,
                   !.user_id = SessionTable[session_id].user_id,
                   !.user_name = IF Truthy(from_session) THEN from_session
                                 ELSE sys_name,
                   !.new_session = key \notin Keys(session_contexts),
                   !.start_greeted =
                       /\ key \in Keys(session_contexts)
                       /\ CtxOf(session_contexts, key).greeted_this_session,
                   !.start_suggestion =
                       IF key \in Keys(session_contexts)
                       THEN CtxOf(session_contexts, key).last_suggested_topic
                       ELSE ""])

\* A request arrives, whatever the other requests are doing: the event
\* loop runs it, in the first free slot, up to its first await.
Arrive ==
    /\ nreq < in_turns
    /\ \E slot \in Slots :
          /\ reqs[slot].pc \in {"idle", "done", "failed"}
          /\ \A j \in 1..(slot - 1) : reqs[j].pc \notin {"idle", "done", "failed"}
          /\ \E sid \in in_sids, m \in in_msgs, n \in in_names :
                Apply(slot, Begin(sid, m, n))
    /\ nreq' = nreq + 1
    /\ UNCHANGED <<keyword_cache, cache_loaded, zep_client, nops, last_call,
                   in_sids, in_msgs, in_names, in_turns, articles, admin, probe>>

\* A caller sends the next utterance once the previous response has arrived.
StartRequest ==
    \* no request is between its first and its last statement
    /\ \A i \in Slots : reqs[i].pc \in {"idle", "done", "failed"}
    /\ Arrive

Env == <<keyword_cache, cache_loaded, zep_client, nreq, nops, last_call,
         in_sids, in_msgs, in_names, in_turns, articles, admin, probe>>

\* agent.py:1439-1454: the gather returns, the context is cached
Fetched(r, mem, db_name) ==
    LET name1 == IF Truthy(mem.user_name) /\ ~Truthy(r.user_name)
                 THEN mem.user_name ELSE r.user_name
        name2 == IF Truthy(db_name) /\ ~Truthy(name1) THEN db_name ELSE name1
    IN  Dispatch(cache_user_context(session_contexts, SessionKey(r.session_id),
                                    name2, mem),
                 [r EXCEPT !.user_name = name2, !.user_context = mem],
                 tasks, background_results)

AfterFetch ==
    \E slot \in Slots :
        /\ reqs[slot].pc = "fetch"
        /\ \E search \in IF zep_client
                          THEN {"raises", "facts", "facts_of_dana"}
                          ELSE {"no call"},
              \* get_user_preferred_name: a name, or None, which also stands
              \* for a lookup that raised
              db \in IF reqs[slot].prof_lookups > 0 THEN {None, "Pat"}
                     ELSE {None} :
              Apply(slot, Fetched([reqs[slot] EXCEPT !.mem_unavailable =
                                       ~zep_client \/ search = "raises"],
                                  get_user_memory(zep_client, search), db))
        /\ UNCHANGED Env

\* agent.py:1141-1150, 1703-1717: the teaser model answers or raises
AfterTeaserLLM ==
    \E slot \in Slots :
        /\ reqs[slot].pc = "teaser_llm"
        /\ \E text \in {TeaserAnswer(reqs[slot].teaser),
                        TeaserFallbackText(reqs[slot].teaser)} :
              Apply(slot, Finish(add_to_history(session_contexts, Key(slot),
                                                "assistant", text),
                                 reqs[slot], tasks, background_results,
                                 "teaser", text))
        /\ UNCHANGED Env

\* agent.py:1761-1782: the answer from pre-loaded content; an exception of
\* the model call leaves the handler
AfterPrefetchLLM ==
    \E slot \in Slots :
        /\ reqs[slot].pc = "bg_llm"
        /\ \E ok \in BOOLEAN :
              IF ok
              THEN LET text == PrefetchedResponse
                   IN  Apply(slot, Finish(add_to_history(session_contexts, Key(slot),
                                                         "assistant", text),
                                          reqs[slot], tasks, background_results,
                                          "prefetched", text))
              ELSE /\ reqs' = [reqs EXCEPT ![slot].pc = "failed"]
                   /\ UNCHANGED <<session_contexts, tasks, background_results>>
        /\ UNCHANGED Env

\* the search result handling that always takes the top title as the topic
Searched_overwrite(r, out) ==
    LET key == SessionKey(r.session_id)
    IN  IF out = "error"
        THEN Finish(add_to_history(session_contexts, key, "assistant",
                                   SearchTroubleText),
                    r, tasks, background_results, "search_error", SearchTroubleText)
        ELSE IF out = "empty"
        THEN Finish(add_to_history(session_contexts, key, "assistant",
                                   NoArticlesText),
                    r, tasks, background_results, "search_empty", NoArticlesText)
        ELSE Suspend(set_current_topic(session_contexts, key, out),
                     r, tasks, background_results, "llm", "search")

\* the search result handling that forgets the topic when the search fails
\* or finds nothing
Searched_forgets_topic(r, out) ==
    LET key  == SessionKey(r.session_id)
        text == IF out = "error" THEN SearchTroubleText ELSE NoArticlesText
    IN  IF out \in {"error", "empty"}
        THEN Finish(add_to_history(
                        set_current_topic(session_contexts, key, ""),
                        key, "assistant", text),
                    r, tasks, background_results,
                    IF out = "error" THEN "search_error" ELSE "search_empty",
                    text)
        ELSE Searched_overwrite(r, out)

\* agent.py:1816-1836, 1896-1904: search_articles returns or raises
Searched(r, out) ==
    LET key == SessionKey(r.session_id)
    IN  IF out = "error"
        THEN Finish(add_to_history(session_contexts, key, "assistant",
                                   SearchTroubleText),
                    r, tasks, background_results, "search_error", SearchTroubleText)
        ELSE IF out = "empty"
        THEN Finish(add_to_history(session_contexts, key, "assistant",
                                   NoArticlesText),
                    r, tasks, background_results, "search_empty", NoArticlesText)
        ELSE LET S1 == IF r.current_topic_for_search = ""
                       THEN set_current_topic(session_contexts, key, out)
                       ELSE session_contexts
                 S2 == get_history_context(S1, key).s
                 S3 == get_current_topic(S2, key).s
             IN  Suspend(S3, r, tasks, background_results, "llm", "search")

AfterSearch ==
    \E slot \in Slots :
        /\ reqs[slot].pc = "search"
        \* the call raises or finds nothing, or it returns articles
        /\ \/ \E out \in {"error", "empty"} :
                 Apply(slot, Searched(reqs[slot], out))
           \/ \E out \in ArticleTitles :
                 Apply(slot, Searched(reqs[slot], out))
        /\ UNCHANGED Env

\* agent.py:1870-1904: the model answers or raises; store_to_memory suspends
\* only when there is a client
Answered(r, ok) ==
    LET key == SessionKey(r.session_id)
        text == SearchResponse
    IN  IF ~ok
        THEN Finish(add_to_history(session_contexts, key, "assistant",
                                   SearchTroubleText),
                    r, tasks, background_results, "llm_error", SearchTroubleText)
        ELSE IF Truthy(r.user_id) /\ Len(r.user_msg) > 5 /\ zep_client
        THEN Suspend(session_contexts, [r EXCEPT !.response_text = text],
                     tasks, background_results, "store_user", "search")
        ELSE Finish(add_to_history(session_contexts, key, "assistant", text),
                    [r EXCEPT !.stored =
                        IF Truthy(r.user_id) /\ Len(r.user_msg) > 5
                        THEN <<store_to_memory(zep_client, "no call"),
                               store_to_memory(zep_client, "no call")>>
                        ELSE <<>>],
                    tasks, background_results, "search_ok", text)

AfterLLM ==
    \E slot \in Slots :
        /\ reqs[slot].pc = "llm"
        /\ \E ok \in BOOLEAN : Apply(slot, Answered(reqs[slot], ok))
        /\ UNCHANGED Env

\* whether the context of the request's session is marked as fetched
FetchedNow(slot) ==
    /\ Key(slot) \in Keys(session_contexts)
    /\ CtxOf(session_contexts, Key(slot)).context_fetched

\* agent.py:1892: store_to_memory(user_id, user_msg, "user") has called Zep
AfterStoreUser ==
    \E slot \in Slots :
        /\ reqs[slot].pc = "store_user"
        /\ \E call \in {"ok", "raises"} :
              reqs' = [reqs EXCEPT ![slot].pc = "store_assistant",
                                   ![slot].stored =
                                       Append(@, store_to_memory(zep_client, call)),
                                   ![slot].zep_after_fetch =
                                       IF FetchedNow(slot) THEN @ + 1 ELSE @]
        /\ UNCHANGED <<session_contexts, tasks, background_results>>
        /\ UNCHANGED Env

\* agent.py:1894-1910: the second store_to_memory, then the response
AfterStoreAssistant ==
    \E slot \in Slots :
        /\ reqs[slot].pc = "store_assistant"
        /\ \E call \in {"ok", "raises"} :
              Apply(slot,
                    Finish(add_to_history(session_contexts, Key(slot), "assistant",
                                          reqs[slot].response_text),
                           [reqs[slot] EXCEPT
                               !.stored =
                                   Append(@, store_to_memory(zep_client, call)),
                               !.zep_after_fetch =
                                   IF FetchedNow(slot) THEN @ + 1 ELSE @],
                           tasks, background_results, "search_ok",
                           reqs[slot].response_text))
        /\ UNCHANGED Env

\* load_full_article_background (agent.py:1153-1172): the detached task's
\* search returns; only a non-empty result is written
BackgroundLoad ==
    \E i \in DOMAIN tasks, out \in SearchOutcomes :
        /\ tasks' = RemoveAt(tasks, i)
        /\ background_results' =
              IF out \in ArticleTitles
              THEN BgPut(background_results,
                         [key |-> tasks[i].session_id, query |-> tasks[i].query,
                          content |-> out, ready |-> TRUE])
              ELSE background_results
        /\ UNCHANGED <<session_contexts, reqs>>
        /\ UNCHANGED Env

Init ==
    /\ session_contexts = <<>>
    /\ InitRest(load_keyword_cache(<<>>, ArticleRows), BOOLEAN,
                {None, "Dan|user123", "|u7"},
                {"hello", "hi", "yes please", "ok", "tell me about the fawney",
                 "thorney island"},
                {None}, MaxRequests)

Next ==
    \/ StartRequest
    \/ AfterFetch
    \/ AfterTeaserLLM
    \/ AfterPrefetchLLM
    \/ AfterSearch
    \/ AfterLLM
    \/ AfterStoreUser
    \/ AfterStoreAssistant
    \/ BackgroundLoad

Spec == Init /\ [][Next]_vars

\* The same handler, asked utterances that satisfy the tests of several
\* stages of the classification chain at once.
SpecChain ==
    /\ session_contexts = <<>>
    /\ InitRest(load_keyword_cache(<<>>, ArticleRows), BOOLEAN,
                {"Dan|user123", "|u7"},
                {"hi", "{calm}", "hello rosie", "hello", "hello who am i",
                 "who am i and who are you", "tell me about yourself",
                 "yes please", "tell me about the fawney", "thorney island",
                 "london bridge history"},
                {None}, MaxRequests)
    /\ [][Next]_vars

\* The same handler in a dialogue of one caller with a user id: topics, vague
\* follow-ups and an affirmation, while the prefetches run in the background.
MaxDialogue == 3

SpecFollowUp ==
    /\ session_contexts = <<>>
    /\ InitRest(load_keyword_cache(<<>>, ArticleRows), {TRUE}, {"Dan|user123"},
                {"thorney island", "royal aquarium", "the royal aquariam",
                 "what happened to it", "yes please"},
                {None}, MaxDialogue)
    /\ [][Next]_vars

\* Requests that arrive while other requests are suspended: two requests of
\* callers with and without a user id and without a session id.
MaxOverlapping == 2

SpecConcurrent ==
    /\ session_contexts = <<>>
    /\ InitRest(load_keyword_cache(<<>>, ArticleRows), {TRUE},
                {None, "Sam|", "|u7"},
                {"hello", "thorney island", "yes please"},
                {None}, MaxOverlapping)
    /\ [][\/ Arrive
          \/ AfterFetch
          \/ AfterTeaserLLM
          \/ AfterPrefetchLLM
          \/ AfterSearch
          \/ AfterLLM
          \/ AfterStoreUser
          \/ AfterStoreAssistant
          \/ BackgroundLoad]_vars

\* More callers than the store has room for: three requests of callers
\* without a user id, whose requests never come to the awaits of the memory
\* provider and of the profile lookup.  One caller sends no session id and
\* one sends the session id "default".
MaxArrivals == 3

SpecCrowd ==
    /\ session_contexts = <<>>
    /\ InitRest(load_keyword_cache(<<>>, ArticleRows), {TRUE},
                {None, "Sam|", "default"},
                {"hello", "thorney island", "yes please"},
                {None}, MaxArrivals)
    /\ [][\/ Arrive
          \/ AfterTeaserLLM
          \/ AfterPrefetchLLM
          \/ AfterSearch
          \/ AfterLLM
          \/ BackgroundLoad]_vars

\* The dialogue with the awaits of the search path returning eventually
\* (search_articles, the model call and the two store_to_memory calls each
\* answer or raise); nothing is assumed about when, or whether, a detached
\* prefetch task gets its search result.
SpecFollowUpFair ==
    /\ SpecFollowUp
    /\ WF_vars(AfterSearch) /\ WF_vars(AfterLLM)
    /\ WF_vars(AfterStoreUser) /\ WF_vars(AfterStoreAssistant)


(***************************************************************************)
(* Direct calls of the noise test (agent.py:1468-1483) on short utterances.*)
(***************************************************************************)
\* longest utterance built from NoiseChars
MaxResidualLen == 3
RECURSIVE StringsUpTo(_, _)
StringsUpTo(chars, n) ==
    IF n = 0 THEN {""}
    ELSE LET shorter == StringsUpTo(chars, n - 1)
         IN  shorter \cup { s \o chars[i] : s \in shorter, i \in DOMAIN chars }

\* what the transcriber may send: short strings over a letter that is a
\* filler word, two more letters, a digit, a blank and a punctuation mark,
\* with and without an emotion marker, and the fillers of three letters
NoiseInputs ==
    LET chars == <<"a", "m", "u", "2", " ", "!">>
    IN  StringsUpTo(chars, MaxResidualLen)
        \cup { "{calm} " \o s : s \in StringsUpTo(chars, MaxResidualLen - 1) }
        \cup {"hmm", "Hmm", "the", "{calm, focused} the", "hmm hmm", "the m25",
              "{calm}", "{calm} thorney"}

\* agent.py:1468-1483 on the utterance
IsNoiseCall ==
    /\ probe = <<>>
    /\ \E m \in in_msgs :
          LET clean == clean_query(normalize_query(m))
          IN  probe' = [fn |-> "is_noise", arg |-> m, clean |-> clean,
                        out |-> is_noise(clean)]
    /\ UNCHANGED <<session_contexts, background_results, keyword_cache,
                   cache_loaded, zep_client, reqs, tasks, nreq, nops, last_call,
                   in_sids, in_msgs, in_names, in_turns, articles, admin>>

\* one utterance is drawn
SpecNoise ==
    /\ session_contexts = <<>>
    /\ \E m \in NoiseInputs : InitRest(<<>>, {FALSE}, {None}, {m}, {None}, 0)
    /\ [][IsNoiseCall]_vars


(***************************************************************************)
(* Direct calls of normalize_query (tools.py:119-127), once as             *)
(* clm_endpoint does (agent.py:1468) and once more on the result, as       *)
(* search_articles does with the query it is handed (tools.py:160).        *)
(***************************************************************************)
NormalizeCall ==
    /\ probe = <<>>
    /\ \E m \in in_msgs :
          LET once == normalize_query(m)
          IN  probe' = [fn |-> "normalize_query", arg |-> m, once |-> once,
                        twice |-> normalize_query(once)]
    /\ UNCHANGED <<session_contexts, background_results, keyword_cache,
                   cache_loaded, zep_client, reqs, tasks, nreq, nops, last_call,
                   in_sids, in_msgs, in_names, in_turns, articles, admin>>

\* one utterance is drawn: a word or phrase of the correction table, wrong
\* or corrected, or an ordinary word, alone or after "tell me about"
SpecNorm ==
    /\ session_contexts = <<>>
    /\ \E w \in { PHONETIC_CORRECTIONS[k][j] :
                    k \in DOMAIN PHONETIC_CORRECTIONS, j \in {1, 2} }
               \cup {"london", "bridge", "the river fleet"} :
          \E m \in {w, "tell me about " \o w} :
             InitRest(<<>>, {FALSE}, {None}, {m}, {None}, 0)
    /\ [][NormalizeCall]_vars


(***************************************************************************)
(* Direct calls of add_to_history (agent.py:151-162) on one session.       *)
(***************************************************************************)
\* calls made: one more than the history keeps
MaxHistoryCalls == 9

\* each call adds a short user text, a text of exactly 200 characters or a
\* text of 201 characters; probe is the list of the calls made so far
AddToHistoryCall ==
    /\ nops < MaxHistoryCalls
    /\ nops' = nops + 1
    /\ LET ten == "0123456789"
           fifty == ten \o ten \o ten \o ten \o ten
           two_hundred == fifty \o fifty \o fifty \o fifty
       IN  \E call \in {[role |-> "user", text |-> "thorney island"],
                        [role |-> "assistant", text |-> two_hundred],
                        [role |-> "assistant", text |-> two_hundred \o "!"]} :
              /\ session_contexts' =
                     add_to_history(session_contexts, "s1", call.role, call.text)
              /\ probe' = Append(probe, call)
    /\ UNCHANGED <<background_results, keyword_cache, cache_loaded, zep_client,
                   reqs, tasks, nreq, last_call, in_sids, in_msgs, in_names,
                   in_turns, articles, admin>>

SpecHistory ==
    /\ session_contexts = <<>>
    /\ InitRest(<<>>, {FALSE}, {None}, {}, {None}, 0)
    /\ [][AddToHistoryCall]_vars


(***************************************************************************)
(* Direct calls of the voice truncation on a model answer, with the        *)
(* numbers of the search path (agent.py:1873-1887) and of the pre-loaded   *)
(* path (agent.py:1764-1774).                                              *)
(***************************************************************************)
TruncateCall ==
    /\ probe = <<>>
    /\ \E m \in in_msgs,
          path \in {[name |-> "search", max_words |-> 100, keep_words |-> 80,
                     min_pos |-> 50, follow_up |-> " Would you like to know more?"],
                    [name |-> "pre-loaded", max_words |-> 80, keep_words |-> 70,
                     min_pos |-> 40, follow_up |-> " Shall I tell you more?"]} :
          probe' = [fn |-> "truncate", arg |-> m, path |-> path,
                    words |-> Len(Split(m)),
                    out |-> truncate_for_voice(m, path.max_words, path.keep_words,
                                               path.min_pos, path.follow_up)]
    /\ UNCHANGED <<session_contexts, background_results, keyword_cache,
                   cache_loaded, zep_client, reqs, tasks, nreq, nops, last_call,
                   in_sids, in_msgs, in_names, in_turns, articles, admin>>

\* one answer is drawn: n one-letter words, of which word p ends with the
\* mark c and the word two before it with the mark d
SpecVoice ==
    /\ session_contexts = <<>>
    /\ \E n \in {80, 81, 100, 101, 110}, p \in {20, 30, 60, 70, 80},
          c \in {"", ".", "!", "?"}, d \in {"", "?"} :
          InitRest(<<>>, {FALSE}, {None},
                   {JoinWords([i \in 1..n |->
                                 "w" \o (IF i = p THEN c
                                         ELSE IF i = p - 2 THEN d ELSE "")],
                              1, n)},
                   {None}, 0)
    /\ [][TruncateCall]_vars


(***************************************************************************)
(* The teaser cache under the administrative keyword mutation              *)
(* (agent.py:1004-1084, 2573-2609), with readers looking keywords up.      *)
(***************************************************************************)
\* calls of add_keywords_to_article
MaxMutations == 1

\* the sequences that list every element of the finite set S once
RECURSIVE Orderings(_)
Orderings(S) ==
    IF S = {} THEN {<<>>}
    ELSE UNION { { <<x>> \o t : t \in Orderings(S \ {x}) } : x \in S }

\* topic_keywords of an article: one or two of four keywords, of which
\* "royal aquarium" and "royal" occur in the title Royal Aquarium and
\* "abbey" and "london" in no title
KeywordLists ==
    { <<k>> : k \in {"royal aquarium", "royal", "abbey", "london"} }
    \cup { <<"royal aquarium", "royal">>, <<"royal", "abbey">>,
           <<"abbey", "london">>, <<"london", "royal aquarium">> }

\* add_keywords_to_article up to its reload (agent.py:2573-2595): the first
\* article the LIKE query returns gets list(set(existing + lowered new))
AddKeywords ==
    /\ admin.pc = "idle"
    /\ admin.n < MaxMutations
    /\ \E title_pattern \in {"royal", "Island", "bridge"},
          keywords \in {<<"Royal">>, <<"abbey">>, <<"london">>} :
          LET found == { i \in DOMAIN articles :
                           Contains(Lower(articles[i].title),
                                    Lower(title_pattern)) }
          IN  IF found = {}
              THEN /\ articles' = articles
                   /\ admin' = [pc |-> "idle", n |-> admin.n + 1]
              ELSE \E i \in found :
                     \E merged \in Orderings(
                            { articles[i].topic_keywords[j] :
                                 j \in DOMAIN articles[i].topic_keywords }
                            \cup { Lower(keywords[j]) : j \in DOMAIN keywords }) :
                        /\ articles' =
                              [articles EXCEPT ![i].topic_keywords = merged]
                        /\ admin' = [pc |-> "reload", n |-> admin.n + 1]
    /\ UNCHANGED <<session_contexts, background_results, keyword_cache,
                   cache_loaded, zep_client, reqs, tasks, nreq, nops, last_call,
                   in_sids, in_msgs, in_names, in_turns, probe>>

\* await load_keyword_cache() (agent.py:2598, 1004-1048): the rows come in
\* the order the query returns them and the loop over them runs without an
\* await; a failing query only sets _cache_loaded to False
ReloadCache ==
    /\ admin.pc = "reload"
    /\ \/ /\ \E rows \in Orderings({ articles[i] : i \in DOMAIN articles }) :
                keyword_cache' = load_keyword_cache(keyword_cache, rows)
          /\ cache_loaded' = TRUE
       \/ /\ keyword_cache' = keyword_cache
          /\ cache_loaded' = FALSE
    /\ admin' = [admin EXCEPT !.pc = "idle"]
    /\ UNCHANGED <<session_contexts, background_results, zep_client, reqs,
                   tasks, nreq, nops, last_call, in_sids, in_msgs, in_names,
                   in_turns,
                   articles, probe>>

\* a reader calls get_teaser_from_cache (agent.py:1675)
LookupCall ==
    /\ \E q \in in_msgs :
          probe' = [fn |-> "get_teaser_from_cache", arg |-> q,
                    out |-> get_teaser_from_cache(keyword_cache, cache_loaded, q)]
    /\ UNCHANGED <<session_contexts, background_results, keyword_cache,
                   cache_loaded, zep_client, reqs, tasks, nreq, nops, last_call,
                   in_sids, in_msgs, in_names, in_turns, articles, admin>>

\* The articles of ArticleRows with any keywords; startup_event has loaded
\* the cache from the rows in the order the query happened to return them.
SpecCache ==
    /\ session_contexts = <<>>
    /\ background_results = <<>>
    /\ articles \in { [i \in DOMAIN ArticleRows |->
                          [ArticleRows[i] EXCEPT !.topic_keywords = kws[i]]] :
                      kws \in [DOMAIN ArticleRows -> KeywordLists] }
    /\ \E rows \in Orderings({ articles[i] : i \in DOMAIN articles }) :
          keyword_cache = load_keyword_cache(<<>>, rows)
    /\ cache_loaded = TRUE
    /\ zep_client = FALSE
    /\ reqs = [i \in Slots |-> IdleReq]
    /\ tasks = <<>>
    /\ nreq = 0
    /\ nops = 0
    /\ last_call = NoCall
    /\ in_sids = {None}
    /\ in_msgs = {"royal aquarium", "the royal aquarium", "old royal abbey",
                  "the isle"}
    /\ in_names = {None}
    /\ in_turns = 0
    /\ admin = [pc |-> "idle", n |-> 0]
    /\ probe = <<>>
    /\ [][AddKeywords \/ ReloadCache \/ LookupCall]_vars


(***************************************************************************)
(* Claims about the session store.                                         *)
(***************************************************************************)
\* the sequence ks without its element k
RECURSIVE Without(_, _)
Without(ks, k) ==
    IF ks = <<>> THEN <<>>
    ELSE IF Head(ks) = k THEN Without(Tail(ks), k)
         ELSE <<Head(ks)>> \o Without(Tail(ks), k)

\* C1: the store never holds more than MAX_SESSIONS entries; an access to an
\* unseen id while the store is full evicts exactly one entry, the oldest
\* (least recently touched) one; an access to an id already in the store
\* evicts nothing.
C1_BoundedLRUEviction ==
    /\ [](Len(session_contexts) <= MAX_SESSIONS)
    /\ [][LET before == KeySeq(session_contexts)
              after  == KeySeq(session_contexts')
              k      == last_call'.key
          IN  /\ (k \notin Keys(session_contexts)
                    /\ Len(before) = MAX_SESSIONS)
                 => after = Append(Tail(before), k)
              /\ (k \notin Keys(session_contexts)
                    /\ Len(before) < MAX_SESSIONS)
                 => after = Append(before, k)
              /\ k \in Keys(session_contexts)
                 => Keys(session_contexts') = Keys(session_contexts)
         ]_vars

\* C1 witness: the last call inserted an unseen id into a full store and
\* evicted the entry that was the oldest.
C1_Witness ==
    /\ last_call.kind # "none"
    /\ Len(last_call.before) = MAX_SESSIONS
    /\ last_call.key \notin { last_call.before[i] : i \in DOMAIN last_call.before }
    /\ last_call.evicted = {Head(last_call.before)}
    /\ Len(session_contexts) = MAX_SESSIONS

\* C2: every accessor call on an existing session, reading or writing, makes
\* it the most recently used and keeps the order of the others; so when the
\* oldest session of a full store is touched and a new id is inserted next,
\* the touched session stays and the next-oldest one is evicted.
C2_TouchMovesToEnd ==
    /\ [][LET before == KeySeq(session_contexts)
              k      == last_call'.key
          IN  k \in Keys(session_contexts)
              => KeySeq(session_contexts') = Append(Without(before, k), k)
         ]_vars
    /\ [](  (last_call.prev_touched.kind # "none" /\ last_call.evicted # {})
         => /\ last_call.prev_touched.key \in Keys(session_contexts)
            /\ last_call.evicted = {Head(last_call.before)}
            /\ Head(last_call.before) # last_call.prev_touched.key )

\* C2 witness: a read accessor touched the oldest entry of a full store, and
\* the insertion that followed evicted another entry.
C2_Witness ==
    /\ last_call.prev_touched.kind = "read"
    /\ last_call.evicted # {}
    /\ last_call.prev_touched.key \in Keys(session_contexts)

(***************************************************************************)
(* Claims about the requests.  Requests arrive one after the other in      *)
(* Spec, so reqs[1] is the request being handled or the last one handled.  *)
(***************************************************************************)
Started(r) == r.pc # "idle"
Returned(r) == r.pc = "done"

\* C3: once context_fetched is true for a session, no request of that
\* session calls the memory provider or the profile store again, neither for
\* a lookup nor for a write such as store_to_memory.
C3_NoProviderCallAfterFetch ==
    \A i \in Slots :
        /\ reqs[i].zep_after_fetch = 0
        /\ reqs[i].was_cached => reqs[i].mem_lookups = 0 /\ reqs[i].prof_lookups = 0

\* a request has written to the memory provider although its session's
\* context was already marked as fetched
C3_Witness ==
    /\ Returned(reqs[1])
    /\ reqs[1].zep_after_fetch = 2
    /\ FetchedNow(1)

NameKnownBeforeFetch(r) ==
    Truthy(SessionTable[r.session_id].user_name) \/ Truthy(r.sys_name)

GreetingShaped(user_msg) ==
    is_greeting_request(user_msg, clean_query(normalize_query(user_msg)))
GreetingMessages == { m \in AllMessages : GreetingShaped(m) }
FullGreetings ==
    {"greeting_interest", "greeting_returning", "greeting_named",
     "greeting_anonymous"}

\* C6: in a session the first greeting-shaped message gets a full greeting
\* and every later greeting-shaped message gets the generic prompt.
C6_GreetingExactlyOnce ==
    \A i \in Slots :
        Returned(reqs[i]) /\ reqs[i].user_msg \in GreetingMessages =>
            IF reqs[i].start_greeted
            THEN reqs[i].response_text = AlreadyGreetedText
            ELSE reqs[i].stage \in FullGreetings

\* the first greeting-shaped message of a session was "hi" and got no greeting
C6_Witness ==
    /\ Returned(reqs[1])
    /\ reqs[1].user_msg = "hi"
    /\ ~reqs[1].start_greeted
    /\ reqs[1].stage = "noise"
    /\ ~CtxOf(session_contexts, Key(1)).greeted_this_session

\* C7: for a SessionContext that stays in the store, no step turns
\* greeted_this_session or context_fetched from true back to false.
C7_FlagsMonotonic ==
    [][\A k \in Keys(session_contexts) \cap Keys(session_contexts') :
          /\ CtxOf(session_contexts, k).greeted_this_session
                => CtxOf(session_contexts', k).greeted_this_session
          /\ CtxOf(session_contexts, k).context_fetched
                => CtxOf(session_contexts', k).context_fetched]_vars

\* a session with both flags set has handled a further greeting
C7_Witness ==
    /\ Returned(reqs[1])
    /\ reqs[1].start_greeted
    /\ reqs[1].was_cached
    /\ reqs[1].stage = "greeting_repeat"
    /\ CtxOf(session_contexts, Key(1)).greeted_this_session
    /\ CtxOf(session_contexts, Key(1)).context_fetched

\* C8: in a fresh session "tell me about the fawney" is normalised to contain
\* "thorney", is answered by the teaser fast path as a hit on Thorney Island,
\* and leaves the topic anchor and last_suggested_topic at "Thorney Island".
C8_FawneyTeaserHit ==
    \A i \in Slots :
        /\ Returned(reqs[i])
        /\ reqs[i].user_msg = "tell me about the fawney"
        /\ reqs[i].new_session
        => /\ Contains(normalize_query(reqs[i].user_msg), "thorney")
           /\ reqs[i].stage = "teaser"
           /\ reqs[i].teaser.title = "Thorney Island"
           /\ CtxOf(session_contexts, Key(i)).current_topic_context = "Thorney Island"
           /\ CtxOf(session_contexts, Key(i)).last_suggested_topic = "Thorney Island"

\* the query was taken for an affirmation: no teaser, no anchor, no suggestion
C8_Witness ==
    /\ Returned(reqs[1])
    /\ reqs[1].user_msg = "tell me about the fawney"
    /\ reqs[1].new_session
    /\ reqs[1].normalized_query = "tell me about the thorney"
    /\ reqs[1].response_text = NoSuggestionText
    /\ ~reqs[1].teaser_consulted
    /\ CtxOf(session_contexts, Key(1)).current_topic_context = ""
    /\ CtxOf(session_contexts, Key(1)).last_suggested_topic = ""

\* an utterance that is nothing but one of the affirmation words or phrases
\* of agent.py:1606-1614
PureAffirmations ==
    { m \in AllMessages :
        Strip(Lower(m)) \in AFFIRMATION_WORDS \cup AFFIRMATION_PHRASES }
FullDetailStages ==
    {"prefetched", "search", "search_ok", "search_empty", "search_error",
     "llm_error"}

\* C9: with last_suggested_topic a non-empty T, a message that is solely an
\* affirmation has its working query replaced by T, does not consult the
\* teaser cache and is answered by the full-detail stage.
C9_AffirmationResolves ==
    \A i \in Slots :
        /\ Started(reqs[i])
        /\ reqs[i].pc # "fetch"
        /\ reqs[i].user_msg \in PureAffirmations
        /\ reqs[i].start_suggestion # ""
        => /\ reqs[i].normalized_query = reqs[i].start_suggestion
           /\ reqs[i].skip_to_full_response
           /\ ~reqs[i].teaser_consulted
           /\ reqs[i].stage \in FullDetailStages

\* "ok" arrived while a topic was suggested and was answered as noise
C9_Witness ==
    /\ Returned(reqs[1])
    /\ reqs[1].user_msg = "ok"
    /\ reqs[1].start_suggestion = "Thorney Island"
    /\ ~reqs[1].skip_to_full_response
    /\ reqs[1].response_text = NoisePrompt("Thorney Island")

\* last_suggested_topic of session key k, "" while the key is not stored
SuggestionOf(S, k) ==
    IF k \in Keys(S) THEN CtxOf(S, k).last_suggested_topic ELSE ""

\* C10: no step of a request that is handled as an affirmation changes the
\* last_suggested_topic of its session.
C10_AffirmationKeepsSuggestion ==
    [][\A i \in Slots :
          /\ reqs'[i] # reqs[i]
          /\ ClassifyTable[reqs'[i].user_msg].branch = "affirmation"
          => SuggestionOf(session_contexts', SessionKey(reqs'[i].session_id))
               = SuggestionOf(session_contexts, SessionKey(reqs'[i].session_id))]_vars

\* an affirmation resolved to the suggested topic and the suggestion is
\* still there when it has been answered
C10_Witness ==
    /\ Returned(reqs[1])
    /\ reqs[1].user_msg = "yes please"
    /\ reqs[1].skip_to_full_response
    /\ reqs[1].start_suggestion = "Thorney Island"
    /\ reqs[1].normalized_query = "Thorney Island"
    /\ SuggestionOf(session_contexts, Key(1)) = "Thorney Island"

StageTests(user_msg) ==
    LET clean == clean_query(normalize_query(user_msg))
    IN  <<is_noise(clean),
          Contains(Lower(clean), "rosie"),
          is_greeting_request(user_msg, clean),
          is_name_question(clean),
          is_identity_question(clean),
          is_affirmation(clean)>>
StageTestsTable == [m \in AllMessages |-> StageTests(m)]
\* the first stage whose test accepts the utterance; 7 when none does
FirstStage(user_msg) ==
    LET t == StageTestsTable[user_msg]
        hits == { n \in 1..6 : t[n] }
    IN  IF hits = {} THEN 7
        ELSE CHOOSE n \in hits : \A k \in hits : n <= k
FirstStageTable == [m \in AllMessages |-> FirstStage(m)]
\* utterances that pass the test of more than one classifying stage
Overlapping ==
    { m \in AllMessages :
        Cardinality({ n \in 1..6 : StageTestsTable[m][n] }) > 1 }

\* the request ran no stage behind the classifying ones
NoLateStage(r) ==
    /\ ~r.skip_to_full_response
    /\ ~r.teaser_consulted
    /\ r.teaser = NoTeaser
    /\ r.search_query = ""
    /\ r.bg_query = ""

\* C12: the stages are tried in the order noise, easter egg, greeting,
\* self-name question, persona question, affirmation, teaser, full search.
\* The first stage whose test accepts the utterance gives the response; a
\* stage that returns keeps every later stage from running, and a teaser hit
\* keeps the request's own search from running.
C12_FirstMatchingStageDecides ==
    \A i \in Slots :
        Started(reqs[i]) /\ reqs[i].pc # "fetch" =>
            LET r == reqs[i]
                n == FirstStageTable[r.user_msg]
                greeted_now ==
                    /\ Key(i) \in Keys(session_contexts)
                    /\ CtxOf(session_contexts, Key(i)).greeted_this_session
            IN  /\ n = 1 =>
                     /\ Returned(r) /\ r.stage = "noise" /\ NoLateStage(r)
                     /\ \/ r.response_text = ""
                        \/ \E t \in ArticleTitles :
                              r.response_text = NoisePrompt(t)
                     /\ greeted_now = r.start_greeted
                /\ n = 2 =>
                     /\ Returned(r) /\ r.stage = "easter_egg" /\ NoLateStage(r)
                     /\ r.response_text = EasterEggText
                     /\ greeted_now = r.start_greeted
                /\ n = 3 =>
                     /\ Returned(r) /\ NoLateStage(r)
                     /\ r.stage \in FullGreetings \cup {"greeting_repeat"}
                     /\ greeted_now
                /\ n = 4 =>
                     /\ Returned(r) /\ r.stage = "name_question" /\ NoLateStage(r)
                     /\ r.response_text \in
                            {NameKnownText(r.user_name), NameUnknownText}
                     /\ greeted_now = r.start_greeted
                /\ n = 5 =>
                     /\ Returned(r) /\ r.stage = "identity" /\ NoLateStage(r)
                     /\ r.response_text = IdentityText
                     /\ greeted_now = r.start_greeted
                /\ n = 6 =>
                     /\ greeted_now = r.start_greeted
                     /\ \/ /\ Returned(r) /\ r.stage = "affirmation_prompt"
                           /\ r.response_text = NoSuggestionText
                           /\ NoLateStage(r)
                        \/ /\ r.skip_to_full_response
                           /\ ~r.teaser_consulted /\ r.teaser = NoTeaser
                           /\ r.stage \in FullDetailStages
                /\ n = 7 =>
                     /\ greeted_now = r.start_greeted
                     /\ ~r.skip_to_full_response
                     /\ r.stage \in {"teaser"} \cup FullDetailStages
                     /\ r.stage = "teaser" <=> r.teaser # NoTeaser
                     /\ r.stage = "teaser" =>
                            r.search_query = "" /\ r.bg_query = ""

\* "hello who am i" passes the greeting test and the name-question test and
\* was answered by the greeting stage alone
C12_Witness ==
    /\ Returned(reqs[1])
    /\ reqs[1].user_msg = "hello who am i"
    /\ reqs[1].user_msg \in Overlapping
    /\ reqs[1].stage = "greeting_named"
    /\ reqs[1].response_text = GreetNamedText("Dan")
    /\ NoLateStage(reqs[1])

\* the step in which the request of slot i is answered by the noise stage
NoiseStep(i) ==
    /\ reqs'[i].pc = "done"
    /\ reqs'[i].stage = "noise"
    /\ nreq' # nreq \/ reqs[i].pc = "fetch"
\* the context stored for key k, the defaults while there is none
ContextOf(S, k) == IF k \in Keys(S) THEN CtxOf(S, k) ELSE SessionContext
\* a context without the user data the handler caches before it classifies
\* the utterance (agent.py:1404-1454)
Masked(c) ==
    [c EXCEPT !.user_name = None, !.user_context = NoContext,
              !.context_fetched = FALSE]
\* what a noise step does when last_topic is the topic it looks at
NoiseEffect(i, last_topic) ==
    LET k == SessionKey(reqs'[i].session_id)
        b == ContextOf(session_contexts, k)
        a == ContextOf(session_contexts', k)
        text == reqs'[i].response_text
    IN  /\ tasks' = tasks
        /\ background_results' = background_results
        /\ NoLateStage(reqs'[i])
        /\ IF last_topic # ""
           THEN /\ text = NoisePrompt(last_topic)
                /\ Masked(a) =
                      [Masked(b) EXCEPT !.conversation_history =
                          LastN(Append(@, <<"assistant", TruncateForHistory(text)>>),
                                MAX_HISTORY_TURNS * 2)]
           ELSE /\ text = ""
                /\ Masked(a) = Masked(b)

AlphaCount(s) == Cardinality({ i \in 1..Len(s) : IsAlpha(Char(s, i)) })
NoiseProbed == probe # <<>> /\ probe.fn = "is_noise"

\* C14 as stated: the residual left after the bracketed annotations are
\* stripped is noise exactly when it has fewer than 3 alphabetic characters
\* or is a single filler token.
C14_NoiseIffFewLetters ==
    NoiseProbed =>
        (probe.out <=> \/ AlphaCount(probe.clean) < 3
                       \/ probe.clean \in NOISE_TOKENS)

\* C14 (amended): the residual is noise exactly when it has fewer than 3
\* characters of any kind, or is a single filler token, or has no alphabetic
\* character at all; every other residual, also one with only one or two
\* letters, is passed on.
C14_NoiseIffShortOrNoLetters ==
    NoiseProbed =>
        (probe.out <=> \/ Len(probe.clean) < 3
                       \/ probe.clean \in NOISE_TOKENS
                       \/ AlphaCount(probe.clean) = 0)

\* "a m" has two letters and is passed on
C14_Witness ==
    /\ NoiseProbed
    /\ probe.arg = "a m"
    /\ probe.clean = "a m"
    /\ AlphaCount(probe.clean) = 2
    /\ ~probe.out

(***************************************************************************)
(* Claims about the greeting.                                              *)
(***************************************************************************)
\* C15: the first greeting of a session sets greeted_this_session and
\* registers a last_suggested_topic in three of the four branches: for a
\* returning user with a name and a remembered interest the interest (the
\* interest greeting), for a new user with a name "Thorney Island", for an
\* anonymous user "Royal Aquarium"; for a returning user with a name and no
\* interest none is registered.
C15_GreetingRegistersSuggestion ==
    \A i \in Slots :
        Returned(reqs[i]) /\ reqs[i].stage \in FullGreetings =>
            LET r == reqs[i]
                c == CtxOf(session_contexts, Key(i))
                returning == ~r.user_context.none /\ r.user_context.is_returning
                interest == returning /\ r.user_context.facts # <<>>
            IN  /\ ~r.start_greeted
                /\ c.greeted_this_session
                /\ IF returning /\ Truthy(r.user_name) /\ interest
                   THEN /\ r.stage = "greeting_interest"
                        /\ c.last_suggested_topic # ""
                        /\ c.last_suggested_topic # r.start_suggestion
                   ELSE IF returning /\ Truthy(r.user_name)
                   THEN /\ r.stage = "greeting_returning"
                        /\ c.last_suggested_topic = r.start_suggestion
                   ELSE IF Truthy(r.user_name)
                   THEN /\ r.stage = "greeting_named"
                        /\ c.last_suggested_topic = "Thorney Island"
                   ELSE /\ r.stage = "greeting_anonymous"
                        /\ c.last_suggested_topic = "Royal Aquarium"

\* Dan, whose memory holds a fact about an interest, said hello first and
\* got the greeting without a topic: nothing is registered
C15_Witness ==
    /\ Returned(reqs[1])
    /\ reqs[1].session_id = "Dan|user123"
    /\ reqs[1].user_msg = "hello"
    /\ reqs[1].new_session
    /\ reqs[1].user_context = MemoryReturning(None)
    /\ reqs[1].user_context.facts = <<"interested in hidden rivers">>
    /\ reqs[1].response_text = GreetReturningText("Dan")
    /\ CtxOf(session_contexts, Key(1)).greeted_this_session
    /\ CtxOf(session_contexts, Key(1)).last_suggested_topic = ""
\* the step in which the request of slot i is answered by one of the stages
AnsweredBy(i, stages) ==
    /\ reqs'[i].pc = "done"
    /\ reqs'[i].stage \in stages
    /\ nreq' # nreq \/ reqs[i].pc = "fetch"

\* C16: the easter egg, the repeated greeting, the self-name question and
\* the persona question return their canned response in the step that
\* classifies the utterance: without a teaser lookup, a search, a model call
\* or a background load, without a memory or profile lookup beyond those the
\* request made before the classification, and with every SessionContext
\* field (flags, counters, topic anchor, suggestion, history, pre-fetched
\* content) as it was.
C16_CannedStagesChangeNothing ==
    [][\A i \in Slots :
          AnsweredBy(i, {"easter_egg", "greeting_repeat", "name_question",
                         "identity"}) =>
             LET r == reqs'[i]
                 k == SessionKey(r.session_id)
             IN  /\ Masked(ContextOf(session_contexts', k))
                      = Masked(ContextOf(session_contexts, k))
                 /\ tasks' = tasks
                 /\ background_results' = background_results
                 /\ NoLateStage(r)
                 /\ r.mem_lookups =
                      IF reqs[i].pc = "fetch" THEN reqs[i].mem_lookups ELSE 0
                 /\ r.prof_lookups =
                      IF reqs[i].pc = "fetch" THEN reqs[i].prof_lookups ELSE 0
                 /\ r.zep_after_fetch = 0
                 /\ r.stage = "easter_egg" => r.response_text = EasterEggText
                 /\ r.stage = "greeting_repeat" =>
                        /\ r.response_text = AlreadyGreetedText
                        /\ r.start_greeted
                 /\ r.stage = "name_question" =>
                        r.response_text =
                            IF Truthy(r.user_name) THEN NameKnownText(r.user_name)
                            ELSE NameUnknownText
                 /\ r.stage = "identity" => r.response_text = IdentityText]_vars

\* in a session that has a topic anchor, a suggestion and a history, the
\* persona question was answered and all of them are still there
C16_Witness ==
    /\ Returned(reqs[1])
    /\ reqs[1].user_msg = "tell me about yourself"
    /\ reqs[1].stage = "identity"
    /\ reqs[1].was_cached
    /\ reqs[1].start_suggestion = "Thorney Island"
    /\ CtxOf(session_contexts, Key(1)).last_suggested_topic = "Thorney Island"
    /\ CtxOf(session_contexts, Key(1)).current_topic_context = "Thorney Island"
    /\ Len(CtxOf(session_contexts, Key(1)).conversation_history) = 2
    /\ CtxOf(session_contexts, Key(1)).turns_since_name_used = 1

(***************************************************************************)
(* Claims about the teaser cache.                                          *)
(***************************************************************************)
\* the keyword cache as a mapping, without its insertion order
CacheMap(cache) == { <<cache[i].kw, cache[i].teaser>> : i \in DOMAIN cache }
\* the articles that list the keyword
Owners(kw) ==
    { i \in DOMAIN articles :
        \E j \in DOMAIN articles[i].topic_keywords :
            Lower(articles[i].topic_keywords[j]) = kw }
TitleHas(i, kw) == Contains(Lower(articles[i].title), kw)
\* the last (re)build of the cache went through and none is under way
CacheBuilt == cache_loaded /\ admin.pc = "idle"

\* the priority of the lookup: out is what a loaded cache must give for query
LookupPriority(cache, query, out) ==
    LET q == Strip(Lower(query))
        K == CacheKeys(cache)
        phrases == { k \in K : Contains(k, " ") /\ Contains(q, k) }
        words == Split(q)
        hits == { i \in DOMAIN words : Len(words[i]) > 3 /\ words[i] \in K }
    IN  IF q \in K THEN out = CacheGet(cache, q)
        ELSE IF phrases # {}
        THEN \E k \in phrases :
                /\ \A j \in phrases : Len(j) <= Len(k)
                /\ out = CacheGet(cache, k)
        ELSE IF hits # {}
        THEN out = CacheGet(cache,
                            words[CHOOSE i \in hits : \A j \in hits : i <= j])
        ELSE out = NoTeaser

\* C17: a lookup in the loaded cache returns the entry of the keyword equal
\* to the whole query; else the entry of the longest multi-word keyword that
\* is a substring of the query; else the entry of the first query token
\* longer than 3 characters that is a keyword; else nothing.  A query that
\* contains "royal aquarium", with "royal aquarium" and "royal" both
\* keywords, gets the entry of "royal aquarium".
C17_LookupPriority ==
    [][(probe' # probe /\ probe'.fn = "get_teaser_from_cache" /\ cache_loaded)
        => /\ LookupPriority(keyword_cache, probe'.arg, probe'.out)
           /\ ( /\ {"royal aquarium", "royal"} \subseteq CacheKeys(keyword_cache)
                /\ Contains(probe'.arg, "royal aquarium") )
              => probe'.out = CacheGet(keyword_cache, "royal aquarium")]_vars

\* "royal" is the keyword of Thorney Island, "royal aquarium" that of the
\* Royal Aquarium, and "the royal aquarium" was answered with the latter
C17_Witness ==
    /\ probe # <<>>
    /\ probe.fn = "get_teaser_from_cache"
    /\ probe.arg = "the royal aquarium"
    /\ cache_loaded
    /\ {"royal aquarium", "royal"} \subseteq CacheKeys(keyword_cache)
    /\ CacheGet(keyword_cache, "royal").title = "Thorney Island"
    /\ CacheGet(keyword_cache, "royal aquarium").title = "Royal Aquarium"
    /\ probe.out.title = "Royal Aquarium"

\* C18: once the cache is built, every keyword that several articles list
\* and that occurs in the title of at least one of them maps to an article
\* that lists it and has it in its title, in whatever order the rows were
\* read at startup and at every rebuild.
C18_TitleMatchWins ==
    CacheBuilt =>
        \A kw \in CacheKeys(keyword_cache) :
            ( /\ Cardinality(Owners(kw)) > 1
              /\ \E i \in Owners(kw) : TitleHas(i, kw) )
            => \E i \in Owners(kw) :
                  /\ TitleHas(i, kw)
                  /\ CacheGet(keyword_cache, kw) = TeaserData(articles[i])

\* Thorney Island, listing "royal", was read first and entered the cache
\* under "royal"; the Royal Aquarium, read after it, took the entry over
C18_Witness ==
    /\ CacheBuilt
    /\ articles[1].title = "Thorney Island"
    /\ articles[1].topic_keywords = <<"royal">>
    /\ articles[2].topic_keywords = <<"royal aquarium", "royal">>
    /\ keyword_cache[1].kw = "royal"
    /\ keyword_cache[1].teaser.title = "Royal Aquarium"

\* C19: after a rebuild triggered by the keyword mutation the cache is what
\* a build from scratch over the current articles gives, for one of the
\* orders in which the rows can be read.
C19_RebuildEqualsScratchBuild ==
    CacheBuilt =>
        \E rows \in Orderings({ articles[i] : i \in DOMAIN articles }) :
            CacheMap(keyword_cache) = CacheMap(load_keyword_cache(<<>>, rows))

\* both articles list "abbey" and "london" after the mutation; the rebuilt
\* cache keeps "abbey" with one and "london" with the other, which no build
\* from scratch gives
C19_Witness ==
    /\ CacheBuilt
    /\ admin.n = 1
    /\ Owners("abbey") = {1, 2}
    /\ Owners("london") = {1, 2}
    /\ CacheGet(keyword_cache, "abbey").title = "Thorney Island"
    /\ CacheGet(keyword_cache, "london").title = "Royal Aquarium"

(***************************************************************************)
(* Claims about the normaliser.                                            *)
(***************************************************************************)
\* C20: normalize_query is idempotent on utterances built from the words of
\* the correction table and ordinary words: normalising the normalised
\* query changes nothing.
C20_NormalizeIdempotent ==
    (probe # <<>> /\ probe.fn = "normalize_query") => probe.twice = probe.once

\* "pictures of" becomes a phrase that still contains "images of", which the
\* second pass expands again
C20_Witness ==
    /\ probe # <<>>
    /\ probe.fn = "normalize_query"
    /\ probe.arg = "pictures of"
    /\ probe.once = "show me images of london history"
    /\ probe.twice = "show me show me images of london history london history"

(***************************************************************************)
(* Claims about the teaser stage, the search, memory and history.          *)
(***************************************************************************)
\* the last n entries of the history of session k
HistoryTail(S, k, n) == LastN(CtxOf(S, k).conversation_history, n)

\* C21: on a teaser cache hit the session's topic anchor and its
\* last_suggested_topic both become the teaser title and exactly one
\* background prefetch task is started for the session (for the query that
\* hit); when the teaser response is returned no further task has been
\* started, anchor and suggestion still are the title, and the history ends
\* with the user utterance followed by the teaser response.
C21_TeaserHitEffects ==
    [][\A i \in Slots :
          LET r   == reqs'[i]
              key == SessionKey(r.session_id)
              c   == ContextOf(session_contexts', key)
          IN  /\ (reqs[i].pc # "teaser_llm" /\ r.pc = "teaser_llm") =>
                    /\ r.teaser # NoTeaser
                    /\ c.current_topic_context = r.teaser.title
                    /\ c.last_suggested_topic = r.teaser.title
                    /\ tasks' = Append(tasks, [query |-> r.normalized_query,
                                               session_id |-> key])
                    /\ HistoryTail(session_contexts', key, 1) =
                          <<(<<"user", TruncateForHistory(r.user_msg)>>)>>
              /\ (reqs[i].pc = "teaser_llm" /\ r.pc # "teaser_llm") =>
                    /\ r.pc = "done"
                    /\ r.response_text # ""
                    /\ c.current_topic_context = r.teaser.title
                    /\ c.last_suggested_topic = r.teaser.title
                    /\ tasks' = tasks
                    /\ HistoryTail(session_contexts', key, 2) =
                          <<(<<"user", TruncateForHistory(r.user_msg)>>),
                            (<<"assistant", TruncateForHistory(r.response_text)>>)>>
      ]_vars

\* the anonymous caller's "thorney island" has been answered with a teaser
\* while the prefetch it started is still pending
C21_Witness ==
    /\ reqs[1].pc = "done"
    /\ reqs[1].stage = "teaser"
    /\ reqs[1].session_id = None
    /\ reqs[1].teaser.title = "Thorney Island"
    /\ tasks = <<[query |-> "thorney island", session_id |-> "default"]>>
    /\ ContextOf(session_contexts, "default").conversation_history =
          <<(<<"user", "thorney island">>),
            (<<"assistant", TeaserAnswer(reqs[1].teaser)>>)>>

\* the request went past the teaser stage without consulting the cache
\* although it is no resolved affirmation: Stage 1 took its query for a
\* vague follow-up of the anchor (agent.py:1661-1675)
FullSearchStages ==
    {"search", "search_error", "search_empty", "llm_error", "search_ok"}
VagueSkipped(r) ==
    /\ r.stage \in FullSearchStages \cup {"prefetched"}
    /\ ~r.teaser_consulted
    /\ ~r.skip_to_full_response

\* C22: whenever the teaser stage is skipped because the query is a vague
\* follow-up of an existing anchor, the request falls through to the full
\* search and its search query is the anchor prepended to the query.
C22_VagueFollowUpEnriched ==
    \A i \in Slots :
        (VagueSkipped(reqs[i]) /\ reqs[i].stage \in FullSearchStages) =>
            /\ reqs[i].current_topic_for_search # ""
            /\ reqs[i].search_query =
                  reqs[i].current_topic_for_search \o " " \o
                  reqs[i].normalized_query

\* with the anchor on Thorney Island, "the royal aquarium" is taken for a
\* vague follow-up by Stage 1 and searched as it is by Stage 2
C22_Witness ==
    /\ VagueSkipped(reqs[1])
    /\ reqs[1].user_msg = "the royal aquariam"
    /\ reqs[1].pc = "search"
    /\ reqs[1].current_topic_for_search = "Thorney Island"
    /\ reqs[1].search_query = "the royal aquarium"

\* the topic anchor of session k: what get_current_topic returns
Anchor(S, k) ==
    LET c == ContextOf(S, k)
    IN  IF c.current_topic_context # "" THEN c.current_topic_context
        ELSE c.last_topic

\* slot i takes a step of the full-search stage, the answer from
\* pre-loaded content included
FullSearchStep(i) ==
    /\ reqs'[i] # reqs[i]
    /\ reqs'[i].stage \in FullSearchStages \cup {"prefetched"}

\* C23: the full-search stage never changes a non-empty topic anchor; it
\* sets the anchor only when there was none, to the title that leads the
\* search result; and with an anchor A the search of a vague follow-up is
\* issued for A, a space and the query, the anchor staying A.
C23_FullSearchKeepsAnchor ==
    [][\A i \in Slots :
          FullSearchStep(i) =>
             LET r      == reqs'[i]
                 key    == SessionKey(r.session_id)
                 before == Anchor(session_contexts, key)
                 after  == Anchor(session_contexts', key)
             IN  /\ before # "" => after = before
                 /\ after # before =>
                       /\ reqs[i].pc = "search"
                       /\ r.pc = "llm"
                       /\ r.current_topic_for_search = ""
                       /\ after \in ArticleTitles
                 /\ (reqs[i].pc # "search" /\ r.pc = "search") =>
                       /\ r.current_topic_for_search = before
                       /\ r.search_query =
                             IF before # "" /\ VagueStage2(r.normalized_query)
                             THEN before \o " " \o r.normalized_query
                             ELSE r.normalized_query
      ]_vars

\* "what happened to it" after the teaser on Thorney Island: searched as
\* "Thorney Island what happened to it" and answered, the anchor unchanged
C23_Witness ==
    /\ reqs[1].user_msg = "what happened to it"
    /\ reqs[1].pc = "done"
    /\ reqs[1].stage = "search_ok"
    /\ reqs[1].search_query = "Thorney Island what happened to it"
    /\ Anchor(session_contexts, "Dan|user123") = "Thorney Island"

\* slot i starts to answer from pre-loaded content (agent.py:1727-1732)
ConsumesPrefetch(i) == reqs[i].pc # "bg_llm" /\ reqs'[i].pc = "bg_llm"

\* C24: the full-search stage consumes a completed background prefetch only
\* when that prefetch was made for the session's current topic, and the
\* entry is removed when it is used.
C24_PrefetchForCurrentTopic ==
    [][\A i \in Slots :
          ConsumesPrefetch(i) =>
             LET key == SessionKey(reqs'[i].session_id)
             IN  /\ key \in BgKeys(background_results)
                 /\ BgGet(background_results, key).ready
                 /\ reqs'[i].bg_query = BgGet(background_results, key).query
                 /\ key \notin BgKeys(background_results')
                 /\ TeaserTable[reqs'[i].bg_query].title =
                       Anchor(session_contexts', key)
      ]_vars

\* the caller agreed to hear more about the Royal Aquarium, the anchor, and
\* is answered from the content loaded for "thorney island"
C24_Witness ==
    /\ reqs[1].user_msg = "yes please"
    /\ reqs[1].normalized_query = "Royal Aquarium"
    /\ reqs[1].pc = "bg_llm"
    /\ reqs[1].bg_query = "thorney island"
    /\ Anchor(session_contexts, "Dan|user123") = "Royal Aquarium"
    /\ "Dan|user123" \notin BgKeys(background_results)

\* slot i comes to Stage 2 (agent.py:1719)
EntersFullSearch(i) ==
    /\ reqs[i].pc \in {"idle", "done", "failed", "fetch"}
    /\ reqs'[i].pc \notin {"idle", "done", "failed", "fetch"}
    /\ reqs'[i].stage \in {"search", "prefetched"}

\* C25: a foreground request never waits for a background prefetch task.  A
\* request that comes to the full-search stage while the session has no
\* ready background result (the task has not written yet, failed or found
\* nothing) goes on to the search at once, and a request at the search
\* ends with a response whether or not any prefetch task ever completes.
C25_NeverWaitsForPrefetch ==
    /\ [][\A i \in Slots :
            LET key == SessionKey(reqs'[i].session_id)
            IN  (/\ EntersFullSearch(i)
                 /\ ~(/\ key \in BgKeys(background_results)
                      /\ BgGet(background_results, key).ready)) =>
                    /\ reqs'[i].pc = "search"
                    /\ tasks' = tasks
                    /\ background_results' = background_results
        ]_vars
    /\ \A i \in Slots :
          (reqs[i].pc \notin {"idle", "done", "failed"}
             /\ reqs[i].stage = "search")
          ~> (reqs[i].pc = "done" /\ reqs[i].response_text # "")

\* the affirmation was answered by the search while the prefetch started by
\* the teaser is still pending and has written nothing
C25_Witness ==
    /\ reqs[1].user_msg = "yes please"
    /\ reqs[1].pc = "done"
    /\ reqs[1].stage = "search_ok"
    /\ reqs[1].response_text # ""
    /\ tasks = <<[query |-> "thorney island", session_id |-> "Dan|user123"]>>
    /\ background_results = <<>>

\* C26: every request ends with a response text: a failure of an external
\* call made in the teaser stage or in the full-search stage, the model call
\* that answers from pre-loaded content included, is replaced by a fallback
\* response and never leaves the handler.
C26_FailuresBecomeFallbacks ==
    \A i \in Slots :
        /\ reqs[i].pc # "failed"
        /\ reqs[i].pc = "done" /\ reqs[i].stage \in FullSearchStages \cup
                                     {"teaser", "prefetched"}
              => reqs[i].response_text # ""

\* the model call on the pre-loaded content raised: the request has ended
\* without a response, its prefetched entry is gone and the history holds
\* the utterance without an answer
C26_Witness ==
    /\ reqs[1].pc = "failed"
    /\ reqs[1].stage = "prefetched"
    /\ reqs[1].user_msg = "yes please"
    /\ reqs[1].response_text = ""
    /\ background_results = <<>>
    /\ HistoryTail(session_contexts, "Dan|user123", 1) =
          <<(<<"user", "yes please">>)>>

\* C27: in the full-search stage a search that is unavailable (embedding or
\* store error) and a search that returns no article lead to the same
\* response: whichever of the two happened, the response is the one the
\* other would have produced.
C27_UnavailableLikeEmpty ==
    [][\A i \in Slots :
          (reqs[i].pc = "search" /\ reqs'[i].pc = "done") =>
             /\ reqs'[i].response_text =
                   Searched(reqs[i], "error").r.response_text
             /\ reqs'[i].response_text =
                   Searched(reqs[i], "empty").r.response_text
      ]_vars

\* the search of "what happened to it" raised and the caller hears the
\* trouble sentence, not the no-articles sentence
C27_Witness ==
    /\ reqs[1].pc = "done"
    /\ reqs[1].stage = "search_error"
    /\ reqs[1].user_msg = "what happened to it"
    /\ reqs[1].response_text = SearchTroubleText
    /\ reqs[1].response_text # NoArticlesText

\* C28: when the memory provider is unavailable (no client, or a call that
\* raises), get_user_memory gives a context with is_returning false and no
\* facts, store_to_memory returns false, the greeting is not the returning
\* user's one, and the step that made the provider call never makes the
\* request fail.
C28_MemoryUnavailableTolerated ==
    /\ [](\A i \in Slots :
            /\ reqs[i].mem_unavailable =>
                  /\ ~reqs[i].user_context.none
                  /\ ~reqs[i].user_context.is_returning
                  /\ reqs[i].user_context.facts = <<>>
                  /\ reqs[i].stage \notin {"greeting_returning", "greeting_interest"}
            /\ \A k \in 1..Len(reqs[i].stored) :
                  reqs[i].stored[k].unavailable => ~reqs[i].stored[k].returned
            /\ ~zep_client =>
                  \A k \in 1..Len(reqs[i].stored) : reqs[i].stored[k].unavailable)
    /\ [][\A i \in Slots :
            (reqs[i].pc \in {"fetch", "store_user", "store_assistant"}
                /\ reqs'[i] # reqs[i])
            => reqs'[i].pc \notin {"failed", "idle"}]_vars

\* a request whose memory search raised and whose two stores raised has
\* been answered from the search
C28_Witness ==
    /\ zep_client
    /\ reqs[1].mem_unavailable
    /\ reqs[1].pc = "done"
    /\ reqs[1].stage = "search_ok"
    /\ Len(reqs[1].stored) = 2
    /\ reqs[1].stored[1].unavailable
    /\ reqs[1].stored[2].unavailable

\* C29: a request without a session id is handled as a fresh anonymous
\* session: its session context is new, so it finds no greeting flag and no
\* suggestion left by an earlier request without a session id, and it is
\* never answered as a repeated greeting.
C29_NoSessionIdIsFresh ==
    \A i \in Slots :
        (reqs[i].pc # "idle" /\ reqs[i].session_id = None)
        => /\ reqs[i].new_session
           /\ ~reqs[i].start_greeted
           /\ reqs[i].start_suggestion = ""
           /\ reqs[i].stage # "greeting_repeat"

\* the second "hello" without a session id finds the greeting flag and the
\* suggestion of the first one under the key "default"
C29_Witness ==
    /\ nreq = 2
    /\ reqs[1].session_id = None
    /\ reqs[1].user_msg = "hello"
    /\ ~reqs[1].new_session
    /\ reqs[1].start_greeted
    /\ reqs[1].start_suggestion = "Royal Aquarium"
    /\ reqs[1].pc = "done"
    /\ reqs[1].stage = "greeting_repeat"
    /\ Keys(session_contexts) = {"default"}

\* C30: after any sequence of add_to_history calls the session's history
\* holds at most 8 entries; they are the last calls in the order made,
\* newest last; each text is the original, or its first 200 characters
\* followed by "..." when the original was longer.
C30_HistoryBounded ==
    LET h == IF "s1" \in Keys(session_contexts)
             THEN CtxOf(session_contexts, "s1").conversation_history
             ELSE <<>>
        n == Len(probe)
    IN  /\ Len(h) <= 8
        /\ Len(h) = IF n < 8 THEN n ELSE 8
        /\ \A k \in 1..Len(h) :
              LET call == probe[n - Len(h) + k]
              IN  /\ h[k][1] = call.role
                  /\ IF Len(call.text) > 200
                     THEN /\ Len(h[k][2]) = 203
                          /\ SubSeq(h[k][2], 1, 200) = SubSeq(call.text, 1, 200)
                          /\ SubSeq(h[k][2], 201, 203) = "..."
                     ELSE h[k][2] = call.text

\* nine calls were made, the first is gone, and the newest, a text of 201
\* characters, is the last entry, cut and marked
C30_Witness ==
    /\ Len(probe) = 9
    /\ "s1" \in Keys(session_contexts)
    /\ LET h == CtxOf(session_contexts, "s1").conversation_history
       IN  /\ Len(h) = 8
           /\ probe[1].text = "thorney island"
           /\ h[1] = <<probe[2].role, probe[2].text>>
           /\ Len(probe[2].text) = 200
           /\ Len(probe[9].text) = 201
           /\ Len(h[8][2]) = 203
           /\ h[8][1] = "assistant"


(***************************************************************************)
(* Claims about the voice truncation, concurrent requests and the frame of *)
(* a request.                                                              *)
(***************************************************************************)
EndsWith(s, suffix) ==
    Len(s) >= Len(suffix) /\ SubSeq(s, Len(s) - Len(suffix) + 1, Len(s)) = suffix

SentenceEnds == {".", "!", "?"}

\* C31: an answer of more words than the budget is returned cut at a
\* sentence boundary (the cut text is a prefix of the answer that ends in
\* '.', '!' or '?'), the follow-up question is appended whenever the cut
\* text does not end with a question mark, and the returned text ends in
\* '.', '!' or '?'; an answer within the budget is returned unchanged.
C31_CutAtSentenceBoundary ==
    (probe # <<>> /\ probe.fn = "truncate") =>
        IF probe.words > probe.path.max_words
        THEN LET appended == EndsWith(probe.out, probe.path.follow_up)
                 cut == IF appended
                        THEN SubSeq(probe.out, 1,
                                    Len(probe.out) - Len(probe.path.follow_up))
                        ELSE probe.out
             IN  /\ Char(probe.out, Len(probe.out)) \in SentenceEnds
                 /\ StartsWith(probe.arg, cut)
                 /\ Char(cut, Len(cut)) \in SentenceEnds
                 /\ Char(cut, Len(cut)) # "?" => appended
        ELSE probe.out = probe.arg

\* an answer of 101 words on the search path is cut after word 60, which
\* ends a statement, and gets no follow-up because word 58 ends a question
C31_Witness ==
    /\ probe # <<>>
    /\ probe.fn = "truncate"
    /\ probe.path.name = "search"
    /\ probe.words = 101
    /\ Len(Split(probe.out)) = 60
    /\ EndsWith(probe.out, "w? w w.")

\* C32: whatever the interleaving of the requests of one session, the
\* memory lookup and the profile lookup are each made at most once for the
\* session: of two requests of the session that overlap, at most one
\* fetches.
C32_LookupOncePerSession ==
    \A i, j \in Slots :
        (/\ i # j
         /\ reqs[i].pc # "idle"
         /\ reqs[j].pc # "idle"
         /\ SessionKey(reqs[i].session_id) = SessionKey(reqs[j].session_id))
        => /\ reqs[i].mem_lookups + reqs[j].mem_lookups <= 1
           /\ reqs[i].prof_lookups + reqs[j].prof_lookups <= 1

\* two requests of session "|u7" are both suspended at the gather, each
\* with a memory lookup and a profile lookup under way
C32_Witness ==
    /\ reqs[1].session_id = "|u7"
    /\ reqs[2].session_id = "|u7"
    /\ reqs[1].pc = "fetch"
    /\ reqs[2].pc = "fetch"
    /\ reqs[1].mem_lookups = 1 /\ reqs[2].mem_lookups = 1
    /\ reqs[1].prof_lookups = 1 /\ reqs[2].prof_lookups = 1
    /\ ~CtxOf(session_contexts, "|u7").context_fetched

\* C33: whatever the interleaving of the greeting-shaped requests of one
\* session, at most one of them gets the full greeting: the step that gives
\* the full greeting finds greeted_this_session false and leaves it true,
\* the flag stays true while the session is in the store, and of two
\* overlapping requests of a session at most one was fully greeted.
C33_OneFullGreeting ==
    /\ [][\A i \in Slots :
            (/\ reqs'[i] # reqs[i]
             /\ reqs'[i].pc = "done"
             /\ reqs'[i].stage \in FullGreetings)
            => LET key == SessionKey(reqs'[i].session_id)
               IN  /\ key \in Keys(session_contexts)
                      => ~CtxOf(session_contexts, key).greeted_this_session
                   /\ key \in Keys(session_contexts')
                   /\ CtxOf(session_contexts', key).greeted_this_session]_vars
    /\ [][\A k \in Keys(session_contexts) \cap Keys(session_contexts') :
            CtxOf(session_contexts, k).greeted_this_session
            => CtxOf(session_contexts', k).greeted_this_session]_vars
    /\ [](\A i, j \in Slots :
            (/\ i # j
             /\ reqs[i].pc = "done" /\ reqs[j].pc = "done"
             /\ SessionKey(reqs[i].session_id) = SessionKey(reqs[j].session_id))
            => ~(reqs[i].stage \in FullGreetings /\ reqs[j].stage \in FullGreetings))

\* two "hello" of session "|u7" overlapped at the gather; one was greeted
\* in full, the other was told that the greeting had been given
C33_Witness ==
    /\ reqs[1].session_id = "|u7" /\ reqs[2].session_id = "|u7"
    /\ reqs[1].user_msg = "hello" /\ reqs[2].user_msg = "hello"
    /\ reqs[1].mem_lookups = 1 /\ reqs[2].mem_lookups = 1
    /\ reqs[1].pc = "done" /\ reqs[2].pc = "done"
    /\ reqs[1].stage = "greeting_repeat"
    /\ reqs[2].stage \in FullGreetings

\* C34: whenever the full-search stage consumes a ready background result,
\* the result comes from the prefetch of the session's most recent teaser
\* hit and nothing has been answered in the session since that teaser: the
\* newest entry of the history is the teaser given for the query the
\* content was loaded for.
C34_PrefetchOfLatestTeaser ==
    [][\A i \in Slots :
          ConsumesPrefetch(i) =>
             LET key == SessionKey(reqs'[i].session_id)
                 h   == ContextOf(session_contexts, key).conversation_history
                 t   == TeaserTable[reqs'[i].bg_query]
             IN  /\ Len(h) > 0
                 /\ h[Len(h)] \in {<<"assistant", TeaserAnswer(t)>>,
                                   <<"assistant", TeaserFallbackText(t)>>}
      ]_vars

\* the teaser on Thorney Island was followed up through the search, its
\* prefetch finished afterwards, and the next question is answered from
\* the content that prefetch left behind
C34_Witness ==
    /\ nreq = 3
    /\ reqs[1].user_msg = "what happened to it"
    /\ reqs[1].pc = "bg_llm"
    /\ reqs[1].bg_query = "thorney island"
    /\ LET h == ContextOf(session_contexts, "Dan|user123").conversation_history
       IN  /\ Len(h) = 5
           /\ h[1] = <<"user", "thorney island">>
           /\ h[3] = <<"user", "yes please">>
           /\ h[4] = <<"assistant", SearchResponse>>
           /\ h[5] = <<"user", "what happened to it">>

\* C35: a session with a request suspended at an await of the teaser stage
\* or of the full search stays in the store, with the user entry the
\* request wrote before the await, until the request goes on.
C35_SuspendedSessionKept ==
    \A i \in Slots :
        reqs[i].pc \in {"teaser_llm", "bg_llm", "search", "llm"}
        => LET key == SessionKey(reqs[i].session_id)
           IN  /\ key \in Keys(session_contexts)
               /\ \E n \in DOMAIN CtxOf(session_contexts, key).conversation_history :
                      CtxOf(session_contexts, key).conversation_history[n] =
                         <<"user", reqs[i].user_msg>>

\* the teaser request of "Sam|" was suspended while two other store keys
\* were inserted; it ended on a context created anew, which holds the answer but
\* neither the question nor the topic anchor
C35_Witness ==
    /\ reqs[1].session_id = "Sam|"
    /\ reqs[1].user_msg = "thorney island"
    /\ reqs[1].pc = "done"
    /\ reqs[1].stage = "teaser"
    /\ "Sam|" \in Keys(session_contexts)
    /\ CtxOf(session_contexts, "Sam|").conversation_history =
          << <<"assistant", reqs[1].response_text>> >>
    /\ Anchor(session_contexts, "Sam|") = ""
    /\ CtxOf(session_contexts, "Sam|").last_suggested_topic = ""

\* the store keys other than own whose context a step changed or removed
ChangedOthers(own) ==
    { b \in Keys(session_contexts) \ own :
         \/ b \notin Keys(session_contexts')
         \/ CtxOf(session_contexts', b) # CtxOf(session_contexts, b) }

C37_TurnCountedOnOwnContext ==
    [][\A i \in Slots :
          (/\ reqs[i].pc \in {"idle", "done", "failed", "fetch"}
           /\ reqs'[i].pc \in {"teaser_llm", "bg_llm", "search"})
          => LET key == SessionKey(reqs'[i].session_id)
             IN  /\ key \in Keys(session_contexts')
                 /\ CtxOf(session_contexts', key).turns_since_name_used =
                       ContextOf(session_contexts, key).turns_since_name_used + 1
                 /\ Keys(session_contexts') \ Keys(session_contexts) \subseteq {key}
      ]_vars

\* a request without a session id asked about Thorney Island: its turn is
\* counted on a context under the key None, its history, anchor and
\* suggestion are on the context under "default"
C37_Witness ==
    /\ nreq = 1
    /\ reqs[1].session_id = None
    /\ reqs[1].user_msg = "thorney island"
    /\ reqs[1].pc = "teaser_llm"
    /\ Keys(session_contexts) = {None, "default"}
    /\ CtxOf(session_contexts, None).turns_since_name_used = 1
    /\ CtxOf(session_contexts, None).conversation_history = <<>>
    /\ CtxOf(session_contexts, "default").turns_since_name_used = 0
    /\ CtxOf(session_contexts, "default").conversation_history =
          << <<"user", "thorney island">> >>
    /\ Anchor(session_contexts, "default") = "Thorney Island"

\* the log entries of sessions whose name was marked as used and for which
\* increment_turn was called fewer than NAME_COOLDOWN_TURNS times since
CoolingDown ==
    { probe[i] : i \in { j \in DOMAIN probe :
                           probe[j].turns < NAME_COOLDOWN_TURNS } }

StaysInStore(k) ==
    /\ k \in Keys(session_contexts)
    /\ k \in Keys(session_contexts')
    /\ \/ Keys(session_contexts') \subseteq Keys(session_contexts)
       \/ \A i \in Slots :
             reqs'[i] # reqs[i] => SessionKey(reqs'[i].session_id) # k

\* C39: in every reachable state every stored context has
\* current_topic_context equal to last_topic, and a topic anchor that is
\* non-empty does not become empty again while its session stays in the
\* store.
C39_AnchorFieldsAgree ==
    /\ [](\A i \in DOMAIN session_contexts :
            session_contexts[i].ctx.current_topic_context =
               session_contexts[i].ctx.last_topic)
    /\ [][\A k \in Keys(session_contexts) :
            (StaysInStore(k) /\ Anchor(session_contexts, k) # "")
               => Anchor(session_contexts', k) # ""]_vars

\* two sessions were given the anchor Thorney Island and the session "Sam|"
\* then sent an affirmation, which was answered with both anchors in place
C39_Witness ==
    /\ nreq = MaxArrivals
    /\ \A i \in Slots : reqs[i].pc \in {"idle", "done"}
    /\ \E i \in Slots : /\ reqs[i].pc = "done"
                        /\ reqs[i].session_id = "Sam|"
                        /\ reqs[i].user_msg = "yes please"
    /\ Keys(session_contexts) = {"Sam|", "default"}
    /\ \A k \in Keys(session_contexts) :
          /\ CtxOf(session_contexts, k).current_topic_context = "Thorney Island"
          /\ CtxOf(session_contexts, k).last_topic = "Thorney Island"

\* the records c and d agree on every field outside fields
SameBut(c, d, fields) == \A f \in (DOMAIN c) \ fields : c[f] = d[f]
\* the history h after one more entry, cut to its bound
HistoryPlus(h, role, text) ==
    LET g == Append(h, <<role, TruncateForHistory(text)>>)
    IN  IF Len(g) > MAX_HISTORY_TURNS * 2
        THEN LastN(g, MAX_HISTORY_TURNS * 2) ELSE g
FailedSearchStages == {"search_error", "search_empty"}
CachedUserFields == {"user_name", "user_context", "context_fetched"}

============================================================================
